---- MODULE Spec2Model ----
(***************************************************************************)
(* everyrow-sheets: the task submission / polling / resume life cycle and  *)
(* the persisted "last task id" slot.                                      *)
(*                                                                         *)
(* One client invocation runs at a time (Apps Script is single-threaded).  *)
(* An invocation is cut into steps at its suspension points: the HTTP      *)
(* requests and Utilities.sleep.  Time is in milliseconds.                 *)
(***************************************************************************)
EXTENDS Integers, Sequences, FiniteSets, TLC

(***************************************************************************)
(* Program constants                                                       *)
(***************************************************************************)
MAX_POLL_TIME_MS == 5 * 60 * 1000

INITIAL_POLL_INTERVAL_MS == 2000

MAX_POLL_INTERVAL_MS == 10000

SETTINGS_KEY == "everyrow_settings"

(***************************************************************************)
(* Bounds of the model                                                     *)
(***************************************************************************)
\* A request takes 0..MaxDelayUnits units of wall-clock time.
MaxDelayUnits == 1

\* One unit of request latency: a slow request takes a fifth of the budget.
DelayUnit == MAX_POLL_TIME_MS \div 5

Delays == {k * DelayUnit : k \in 0..MaxDelayUnits}

\* The status queries of one invocation are counted up to MaxQueries.
MaxQueries == 40

\* Operations are started while the spreadsheet holds fewer than MaxSheets
\* result sheets.
MaxSheets == 2

\* A result list holds up to MaxRecords records.
MaxRecords == 2

\* A group artifact holds up to MaxChildren child artifacts.
MaxChildren == 2

\* A selection holds up to MaxRows data rows under its header row.
MaxRows == 2

\* A selection holds up to MaxCols columns.
MaxCols == 2

\* columnToLetter_ is applied to the indices 0..MaxIndex.
MaxIndex == 702

\* Two invocations run their settings operations side by side up to
\* MaxRounds times.
MaxRounds == 2

\* The task ids the remote service hands out, each at most once, in this order.
TaskIdSeq == <<"t1", "t2">>

TaskIds == {TaskIdSeq[i] : i \in 1..Len(TaskIdSeq)}

\* The API keys the user may store.
ApiKeys == {"sk-cho-1"}

(***************************************************************************)
(* JavaScript values                                                       *)
(***************************************************************************)
Null == "<null>"

Undefined == "<undefined>"

\* JavaScript truthiness of the string-or-missing values used here.
Truthy(v) == v # Null /\ v # Undefined /\ v # ""

\* Mutant: the right operand is preferred.
Or_RightFirst(a, b) == IF Truthy(b) THEN b ELSE a

\* a || b
Or(a, b) == IF Truthy(a) THEN a ELSE b

\* The object {} and property access / assignment / delete on objects,
\* which are functions from a finite set of keys to values.
EmptyObject == [k \in {} |-> Undefined]

Get(obj, key) == IF key \in DOMAIN obj THEN obj[key] ELSE Undefined

\* Mutant: an existing member is not overwritten.
Put_KeepExisting(obj, key, val) ==
    [k \in (DOMAIN obj) \cup {key} |-> IF k \in DOMAIN obj THEN obj[k] ELSE val]

Put(obj, key, val) == [k \in (DOMAIN obj) \cup {key} |-> IF k = key THEN val ELSE obj[k]]

Delete(obj, key) == [k \in (DOMAIN obj) \ {key} |-> obj[k]]

\* JSON.parse(JSON.stringify(obj)): members whose value is undefined are
\* dropped by stringify.
JsonRoundTrip(obj) == [k \in {j \in DOMAIN obj : obj[j] # Undefined} |-> obj[k]]

VARIABLES
    userProps,      \* PropertiesService user properties: property name -> parsed JSON
    remote,         \* the remote service: task id -> "none" | "live" | "completed" | "failed"
    now,            \* Date.now()
    pc,             \* position of the running invocation
    op,             \* the entry point that is running
    argTaskId,      \* the taskId argument checkPreviousTask was called with
    taskId,         \* local: the task id being polled / checked
    startTime,      \* local: startTime of the poll loop
    pollInterval,   \* local: pollInterval of the poll loop
    status,         \* local: the last status response body
    result,         \* what the invocation returned or threw
    queries,        \* history: status queries issued by this invocation
    httpCode,       \* history: status code of the response to the last request
    lastStoreOp,    \* history: the most recent saveLastTaskId / clearLastTaskId call
    scenario,       \* what the user and the service may do in this run (never changes)
    sheets,         \* the spreadsheet: the result sheets inserted so far, oldest first
    selection,      \* the active range the running operation read
    kind,           \* the operation kind that is running
    payload,        \* local: taskResult, the body of the result response
    outcome,        \* what the entry point returned or threw
    clearCalls,     \* history: clearLastTaskId calls made by this invocation
    written,        \* history: sheets inserted by this invocation
    call            \* a helper function applied on its own: name, argument, value

\* The state of the client and the service, without the helper call.
clientVars == <<userProps, remote, now, pc, op, argTaskId, taskId, startTime, pollInterval,
                status, result, queries, httpCode, lastStoreOp, scenario, sheets,
                selection, kind, payload, outcome, clearCalls, written>>

vars == <<userProps, remote, now, pc, op, argTaskId, taskId, startTime, pollInterval,
          status, result, queries, httpCode, lastStoreOp, scenario, sheets, selection,
          kind, payload, outcome, clearCalls, written, call>>

(***************************************************************************)
(* Settings.gs                                                             *)
(***************************************************************************)
getSettings_(props) ==
    IF SETTINGS_KEY \in DOMAIN props THEN props[SETTINGS_KEY] ELSE EmptyObject

saveSettings_(props, settings) ==
    Put(props, SETTINGS_KEY, JsonRoundTrip(settings))

getApiKey(props) == Or(Get(getSettings_(props), "apiKey"), Null)

\* Mutant: the key is stored in a fresh settings object.
saveApiKey_Fresh(props, apiKey) ==
    saveSettings_(props, Put(EmptyObject, "apiKey", apiKey))

saveApiKey(props, apiKey) ==
    saveSettings_(props, Put(getSettings_(props), "apiKey", apiKey))

getLastTaskId(props) == Or(Get(getSettings_(props), "lastTaskId"), Null)

\* Mutant: the settings object is changed but never written back.
saveLastTaskId_NotPersisted(props, id) == props

saveLastTaskId(props, id) ==
    saveSettings_(props, Put(getSettings_(props), "lastTaskId", id))

\* apiKey !== null && apiKey.startsWith('sk-cho-'); the keys of ApiKeys are
\* the stored values with that prefix.
isConfigured(props) == getApiKey(props) # Null /\ getApiKey(props) \in ApiKeys

\* Mutant: the key is deleted from the parsed copy only.
clearLastTaskId_NotPersisted(props) == props

clearLastTaskId(props) ==
    saveSettings_(props, Delete(getSettings_(props), "lastTaskId"))

(***************************************************************************)
(* ApiClient.gs                                                            *)
(***************************************************************************)
\* An HTTP response as UrlFetchApp.fetch delivers it (muteHttpExceptions);
\* code 0 stands for fetch itself raising (no connection, URL fetch quota).
NoBody == [status |-> Undefined, artifact_id |-> Undefined, error |-> Undefined]

Threw(message) ==
    [threw |-> TRUE, fetched |-> FALSE, fetches |-> 0, error |-> message, body |-> NoBody]

ThrewAfterFetch(message) ==
    [threw |-> TRUE, fetched |-> TRUE, fetches |-> 1, error |-> message, body |-> NoBody]

Returned(body) ==
    [threw |-> FALSE, fetched |-> TRUE, fetches |-> 1, error |-> <<>>, body |-> body]

\* responseText as far as the client reads it: whether JSON.parse accepts it,
\* the members detail and message of the parsed object, and the raw text
\* (shorter than the 200 characters substring keeps).
ResponseText(json, detail, message, raw) ==
    [json |-> json, detail |-> detail, message |-> message, raw |-> raw]

\* A JSON object that has neither detail nor message.
PlainJson == ResponseText(TRUE, Undefined, Undefined, "{}")

\* A detail that is not a string (FastAPI validation errors), and its JSON text.
DetailObject == "<detail object>"

DetailObjectJson == "[{\"loc\":[\"body\"],\"msg\":\"field required\"}]"

ResponseTextOf(resp) == IF "text" \in DOMAIN resp THEN resp.text ELSE PlainJson

\* Mutant: the request is sent without looking for the key.
makeApiRequest_KeyNotChecked(props, resp) ==
    IF resp.code = 0
    THEN ThrewAfterFetch(<<"fetch failed">>)
    ELSE IF resp.code >= 400
    THEN ThrewAfterFetch(<<"API error: ", ToString(resp.code)>>)
    ELSE Returned(resp.body)

\* Mutant: the message member is preferred to detail.
ApiErrorMessage_MessageFirst(code, text) ==
    IF ~text.json
    THEN <<"API error ", ToString(code), ": ", text.raw>>
    ELSE IF Truthy(text.message)
    THEN <<text.message>>
    ELSE IF Truthy(text.detail)
    THEN IF text.detail = DetailObject THEN <<DetailObjectJson>> ELSE <<text.detail>>
    ELSE <<"API error: ", ToString(code)>>

\* errorMessage of a response with statusCode >= 400.
ApiErrorMessage(code, text) ==
    IF ~text.json
    THEN <<"API error ", ToString(code), ": ", text.raw>>
    ELSE IF Truthy(text.detail)
    THEN IF text.detail = DetailObject THEN <<DetailObjectJson>> ELSE <<text.detail>>
    ELSE IF Truthy(text.message)
    THEN <<text.message>>
    ELSE <<"API error: ", ToString(code)>>

makeApiRequest(props, resp) ==
    IF ~Truthy(getApiKey(props))
    THEN Threw(<<"API key not configured. Please set your API key in Settings.">>)
    ELSE IF resp.code = 0
    THEN ThrewAfterFetch(<<"fetch failed">>)
    ELSE IF resp.code = 401
    THEN ThrewAfterFetch(<<"Invalid API key. Please insert valid API key below.">>)
    ELSE IF resp.code = 403
    THEN ThrewAfterFetch(<<"Access denied. Your API key may not have permission for this operation.">>)
    ELSE IF resp.code >= 400
    THEN ThrewAfterFetch(ApiErrorMessage(resp.code, ResponseTextOf(resp)))
    ELSE IF ~ResponseTextOf(resp).json
    THEN ThrewAfterFetch(<<"SyntaxError: Unexpected token in JSON">>)
    ELSE Returned(resp.body)

\* getTaskStatus(taskId) = makeApiRequest('GET', '/tasks/<id>/status')
getTaskStatus(props, resp) == makeApiRequest(props, resp)

\* getTaskResult(taskId) = makeApiRequest('GET', '/tasks/<id>/result')
getTaskResult(props, resp) == makeApiRequest(props, resp)

(***************************************************************************)
(* The remote service, as far as the client sees it                        *)
(***************************************************************************)
NonTerminalStatuses == {"submitted", "queued", "running", "paused"}

ErrorDetails == {"boom", "", Undefined}

ArtifactOf(t) == IF t = TaskIdSeq[1] THEN "artifact-1" ELSE "artifact-2"

\* The id the service gives the next task it creates.
FreshTaskIds ==
    LET free == {i \in 1..Len(TaskIdSeq) : remote[TaskIdSeq[i]] = "none"} IN
    {TaskIdSeq[i] : i \in {j \in free : \A k \in free : j <= k}}

ErrorCodes == {0, 401, 403, 500}

\* What the service holds for the id of a request; an id it never gave
\* (the text of an undefined value) names no task.
RemoteOf(t) == IF t \in TaskIds THEN remote[t] ELSE "none"

StatusBodies(t) ==
    CASE RemoteOf(t) = "live" ->
           {[status |-> s, artifact_id |-> Undefined, error |-> Undefined] :
               s \in NonTerminalStatuses}
      [] RemoteOf(t) = "completed" ->
           {[status |-> "completed", artifact_id |-> ArtifactOf(t), error |-> Undefined]}
      [] RemoteOf(t) = "failed" ->
           {[status |-> "failed", artifact_id |-> Undefined, error |-> e] :
               e \in ErrorDetails}
      [] OTHER -> {}

\* The responses the service may give to GET /tasks/<t>/status.
StatusResponses(t) ==
    {[code |-> 200, body |-> b] : b \in StatusBodies(t)}
      \cup {[code |-> c, body |-> NoBody] : c \in ErrorCodes}
      \cup (IF RemoteOf(t) = "none" THEN {[code |-> 404, body |-> NoBody]} ELSE {})

\* The responses the service may give to a submit request that creates task t.
SubmitResponses(t) ==
    {[code |-> 200, body |-> [status |-> Undefined, artifact_id |-> Undefined,
                               error |-> Undefined, task_id |-> t]]}
      \cup {[code |-> c, body |-> NoBody] : c \in ErrorCodes}

(***************************************************************************)
(* JavaScript data: strings are sequences of characters, a value is its    *)
(* type t, its text v, and its members o when it is an object.             *)
(***************************************************************************)
JsString(chars) == [t |-> "string", v |-> chars, o |-> EmptyObject]

JsNumber(digits) == [t |-> "number", v |-> digits, o |-> EmptyObject]

JsTrue == [t |-> "boolean", v |-> <<"t", "r", "u", "e">>, o |-> EmptyObject]

JsFalse == [t |-> "boolean", v |-> <<"f", "a", "l", "s", "e">>, o |-> EmptyObject]

JsNull == [t |-> "null", v |-> <<"n", "u", "l", "l">>, o |-> EmptyObject]

JsUndefined ==
    [t |-> "undefined", v |-> <<"u", "n", "d", "e", "f", "i", "n", "e", "d">>, o |-> EmptyObject]

JsObject(members) == [t |-> "object", v |-> <<>>, o |-> members]

\* Truthiness of a value.
TruthyJs(x) ==
    CASE x.t = "string" -> x.v # <<>>
      [] x.t = "number" -> x.v # <<"0">>
      [] x.t = "boolean" -> x = JsTrue
      [] x.t = "object" -> TRUE
      [] OTHER -> FALSE

\* record[key]
Prop(record, key) == IF key \in DOMAIN record THEN record[key] ELSE JsUndefined

\* String(x)
StringOf(x) == x.v

Whitespace == {" ", "\t"}

RECURSIVE TrimStart(_)
TrimStart(chars) ==
    IF chars # <<>> /\ Head(chars) \in Whitespace THEN TrimStart(Tail(chars)) ELSE chars

RECURSIVE TrimEnd(_)
TrimEnd(chars) ==
    IF chars # <<>> /\ chars[Len(chars)] \in Whitespace
    THEN TrimEnd(SubSeq(chars, 1, Len(chars) - 1))
    ELSE chars

\* Mutant: nothing is trimmed.
Trim_Nothing(chars) == chars

\* String.prototype.trim
Trim(chars) == TrimEnd(TrimStart(chars))

Digits == <<"0", "1", "2", "3", "4", "5", "6", "7", "8", "9">>

DigitValue(c) == (CHOOSE d \in 1..10 : Digits[d] = c) - 1

\* The text of a property key is an array index: a canonical decimal
\* number (up to nine digits here, all of them below 2^32 - 1).
IsArrayIndex(chars) ==
    /\ chars # <<>>
    /\ Len(chars) <= 9
    /\ \A i \in 1..Len(chars) : \E d \in 1..10 : Digits[d] = chars[i]
    /\ (Len(chars) = 1 \/ chars[1] # "0")

RECURSIVE IndexValue(_)
IndexValue(chars) ==
    IF chars = <<>>
    THEN 0
    ELSE 10 * IndexValue(SubSeq(chars, 1, Len(chars) - 1)) + DigitValue(chars[Len(chars)])

RECURSIVE Ascending(_)
Ascending(indices) ==
    IF indices = {}
    THEN <<>>
    ELSE LET least == CHOOSE x \in indices :
                         \A y \in indices : IndexValue(x) <= IndexValue(y)
         IN <<least>> \o Ascending(indices \ {least})

\* Object.keys of an object whose keys were inserted in the given order:
\* the array indices in ascending order, then the other keys as inserted.
OwnKeys(inserted) ==
    Ascending({inserted[i] : i \in {c \in 1..Len(inserted) : IsArrayIndex(inserted[c])}})
      \o SelectSeq(inserted, LAMBDA key : ~IsArrayIndex(key))

\* An object as the inverse conversion sees it: Object.keys and the values.
Obj(keys, at) == [keys |-> keys, at |-> at]

\* JSON.stringify of a value; an object of the model's data has one member
\* at most, so that the order of its members does not matter.
RECURSIVE JsonText(_)
JsonText(val) ==
    CASE val.t = "string" -> <<"\"">> \o val.v \o <<"\"">>
      [] val.t = "object" ->
           IF DOMAIN val.o = {}
           THEN <<"{", "}">>
           ELSE LET key == CHOOSE k \in DOMAIN val.o : TRUE IN
                <<"{", "\"">> \o key \o <<"\"", ":">> \o JsonText(val.o[key]) \o <<"}">>
      [] OTHER -> val.v

(***************************************************************************)
(* DataHandling.gs                                                         *)
(***************************************************************************)
\* val === null || val === undefined || val === ''
isEmpty_(val) == val.t \in {"null", "undefined"} \/ (val.t = "string" /\ val.v = <<>>)

Letters ==
    <<"A", "B", "C", "D", "E", "F", "G", "H", "I", "J", "K", "L", "M",
      "N", "O", "P", "Q", "R", "S", "T", "U", "V", "W", "X", "Y", "Z">>

RECURSIVE columnToLetterLoop(_, _)
columnToLetterLoop(letter, temp) ==
    IF temp >= 0
    THEN columnToLetterLoop(<<Letters[(temp % 26) + 1]>> \o letter, (temp \div 26) - 1)
    ELSE letter

\* columnToLetter_(index), index zero-based
columnToLetter_(index) == columnToLetterLoop(<<>>, index)

ColumnPrefix == <<"C", "o", "l", "u", "m", "n", " ">>

Converted(records) == [threw |-> FALSE, error |-> <<>>, records |-> records]

Invalid(message) == [threw |-> TRUE, error |-> <<message>>, records |-> <<>>]

\* No active range.
NoRange == [range |-> FALSE, values |-> <<>>]

\* An active range and what getValues() returns for it: rows of cells.
Range(values) == [range |-> TRUE, values |-> values]

\* values[0].map(h => String(h).trim()); rows and columns are numbered from
\* 1 here, so column j is the code's column j - 1.
rawHeaders(values) == [j \in 1..Len(values[1]) |-> Trim(StringOf(values[1][j]))]

\* The columns with a non-empty cell in a data row, in column order.
validColumnIndices(values) ==
    SelectSeq([j \in 1..Len(values[1]) |-> j],
              LAMBDA j : \E i \in 2..Len(values) : ~isEmpty_(values[i][j]))

\* Mutant: a blank header is named after the column's rank among the valid
\* columns.
headers_ByRank(values) ==
    [k \in 1..Len(validColumnIndices(values)) |->
        LET j == validColumnIndices(values)[k] IN
        IF rawHeaders(values)[j] # <<>>
        THEN rawHeaders(values)[j]
        ELSE ColumnPrefix \o columnToLetter_(k - 1)]

\* The header of each valid column, a placeholder for a blank one.
headers(values) ==
    [k \in 1..Len(validColumnIndices(values)) |->
        LET j == validColumnIndices(values)[k] IN
        IF rawHeaders(values)[j] # <<>>
        THEN rawHeaders(values)[j]
        ELSE ColumnPrefix \o columnToLetter_(j - 1)]

\* selectionToRecords() when the active range is sel.
selectionToRecords(sel) ==
    IF ~sel.range
    THEN Invalid("No cells selected. Please select the data you want to process.")
    ELSE IF Len(sel.values) < 2
    THEN Invalid("Selection must have at least 2 rows (1 header row + 1 data row).")
    ELSE
    LET values == sel.values
        valid == validColumnIndices(values)
        named == headers(values)
        uniqueHeaders == {named[k] : k \in 1..Len(named)}
        dataRows ==
            SelectSeq([i \in 1..(Len(values) - 1) |-> i + 1],
                      LAMBDA i : \E k \in 1..Len(valid) : ~isEmpty_(values[i][valid[k]]))
        records ==
            [n \in 1..Len(dataRows) |->
                [h \in uniqueHeaders |->
                    LET k == CHOOSE c \in 1..Len(named) : named[c] = h IN
                    values[dataRows[n]][valid[k]]]]
    IN
    IF Len(valid) = 0
    THEN Invalid("No columns with data found. Please select cells with data.")
    ELSE IF Cardinality(uniqueHeaders) # Len(named)
    THEN Invalid("Duplicate header names found. Please ensure all headers are unique.")
    ELSE IF Len(records) = 0
    THEN Invalid("No data rows found. Please select cells with data.")
    ELSE Converted(records)

NoSelection == [hasSelection |-> FALSE, rowCount |-> 0, columnCount |-> 0, headers |-> <<>>]

SelectionInfo(rowCount, named) ==
    [hasSelection |-> TRUE, rowCount |-> rowCount, columnCount |-> Len(named),
     headers |-> named]

\* getSelectionInfo() when the active range is sel.
getSelectionInfo(sel) ==
    IF ~sel.range
    THEN NoSelection
    ELSE IF Len(sel.values) < 1
    THEN SelectionInfo(0, <<>>)
    ELSE
    LET values == sel.values
        valid == validColumnIndices(values)
        dataRowCount ==
            Cardinality({i \in 2..Len(values) :
                           \E k \in 1..Len(valid) : ~isEmpty_(values[i][valid[k]])})
    IN SelectionInfo(dataRowCount, headers(values))

SheetNamed(ss, name) == \E i \in 1..Len(ss) : ss[i].name = name

\* Mutant: the name with the first suffix is taken without another look.
FreeName_Once(ss, sheetName, finalName, counter) ==
    IF SheetNamed(ss, finalName)
    THEN sheetName \o <<" (", ToString(counter), ")">>
    ELSE finalName

\* The while loop that looks for a free sheet name.
RECURSIVE FreeName(_, _, _, _)
FreeName(ss, sheetName, finalName, counter) ==
    IF SheetNamed(ss, finalName)
    THEN FreeName(ss, sheetName, sheetName \o <<" (", ToString(counter), ")">>, counter + 1)
    ELSE finalName

\* Mutant: an empty record list gets a sheet all the same.
writeResultsToSheet_EmptySheet(ss, records, sheetName) ==
    [threw |-> FALSE, error |-> <<>>,
     sheets |-> Append(ss, [name |-> FreeName(ss, sheetName, sheetName, 1),
                            rows |-> records]),
     activated |-> FreeName(ss, sheetName, sheetName, 1)]

\* Mutant: the sheet is inserted before the records are looked at.
writeResultsToSheet_InsertFirst(ss, records, sheetName) ==
    [threw |-> Len(records) = 0,
     error |-> IF Len(records) = 0 THEN <<"No results to write.">> ELSE <<>>,
     sheets |-> Append(ss, [name |-> FreeName(ss, sheetName, sheetName, 1),
                            rows |-> records]),
     activated |-> <<>>]

\* writeResultsToSheet(records, sheetName) when the spreadsheet holds the
\* result sheets ss: the sheet is inserted under a free name, filled and
\* made the active sheet (activated is its name, empty when setActiveSheet
\* was not reached).
writeResultsToSheet(ss, records, sheetName) ==
    IF Len(records) = 0
    THEN [threw |-> TRUE, error |-> <<"No results to write.">>, sheets |-> ss,
          activated |-> <<>>]
    ELSE [threw |-> FALSE, error |-> <<>>,
          sheets |-> Append(ss, [name |-> FreeName(ss, sheetName, sheetName, 1),
                                 rows |-> records]),
          activated |-> FreeName(ss, sheetName, sheetName, 1)]

\* records.forEach(record => Object.keys(record).forEach(key => headerSet.add(key)))
RECURSIVE addKeys(_, _)
addKeys(headerSet, keys) ==
    IF keys = <<>>
    THEN headerSet
    ELSE addKeys(IF \E c \in 1..Len(headerSet) : headerSet[c] = Head(keys)
                 THEN headerSet
                 ELSE Append(headerSet, Head(keys)),
                 Tail(keys))

RECURSIVE resultHeaders(_, _)
resultHeaders(headerSet, objects) ==
    IF objects = <<>>
    THEN headerSet
    ELSE resultHeaders(addKeys(headerSet, Head(objects).keys), Tail(objects))

\* Mutant: a nested object is written as it is.
resultCell_Live(object, h) == IF h \in DOMAIN object.at THEN object.at[h] ELSE JsString(<<>>)

\* The cell of a record under header h.
resultCell(object, h) ==
    LET val == IF h \in DOMAIN object.at THEN object.at[h] ELSE JsUndefined IN
    IF val.t = "object"
    THEN JsString(JsonText(val))
    ELSE IF val.t # "undefined" THEN val ELSE JsString(<<>>)

\* The data array writeResultsToSheet passes to setValues: the header row
\* and one row per record.
resultData(objects) ==
    LET named == resultHeaders(<<>>, objects) IN
    <<[c \in 1..Len(named) |-> JsString(named[c])]>>
      \o [n \in 1..Len(objects) |->
            [c \in 1..Len(named) |-> resultCell(objects[n], named[c])]]

(***************************************************************************)
(* Operations: the result normalizers                                      *)
(***************************************************************************)
\* A data member: absent, null, an array of records, or one record.
NoData == [tag |-> "undefined", value |-> <<>>]

NullData == [tag |-> "null", value |-> <<>>]

ArrayData(records) == [tag |-> "array", value |-> records]

RecordData(record) == [tag |-> "object", value |-> record]

TruthyData(data) == data.tag \in {"array", "object"}

\* taskResult: null, undefined, or an object with a data member.
NullResult == [tag |-> "null", data |-> NoData]

NoPayload == [tag |-> "undefined", data |-> NoData]

TaskResult(data) == [tag |-> "object", data |-> data]

extractResultData(taskResult) ==
    IF taskResult.tag # "object" \/ ~TruthyData(taskResult.data)
    THEN <<>>
    ELSE IF taskResult.data.tag = "array"
    THEN taskResult.data.value
    ELSE <<taskResult.data.value>>

K_research == <<"r", "e", "s", "e", "a", "r", "c", "h">>

K_screening_result ==
    <<"s", "c", "r", "e", "e", "n", "i", "n", "g", "_", "r", "e", "s", "u", "l", "t">>

K_reason == <<"r", "e", "a", "s", "o", "n">>

K_selected == <<"s", "e", "l", "e", "c", "t", "e", "d">>

K_equivalence_class_id ==
    <<"e", "q", "u", "i", "v", "a", "l", "e", "n", "c", "e", "_",
      "c", "l", "a", "s", "s", "_", "i", "d">>

K_equivalence_class_name ==
    <<"e", "q", "u", "i", "v", "a", "l", "e", "n", "c", "e", "_",
      "c", "l", "a", "s", "s", "_", "n", "a", "m", "e">>

\* Mutant: the records are passed on as they came.
extractScreenResults_Raw(taskResult) == extractResultData(taskResult)

extractScreenResults(taskResult) ==
    LET records == extractResultData(taskResult)
        format(record) ==
            LET research == Prop(record, K_research)
                promote == /\ TruthyJs(research)
                           /\ TruthyJs(Prop(research.o, K_screening_result))
                keys == (DOMAIN record \ {K_research})
                          \cup (IF promote THEN {K_reason} ELSE {})
            IN [key \in keys |->
                   IF promote /\ key = K_reason
                   THEN research.o[K_screening_result]
                   ELSE record[key]]
    IN [i \in 1..Len(records) |-> format(records[i])]

extractDedupeResults(taskResult) ==
    LET records == extractResultData(taskResult)
        dedupedRecords == SelectSeq(records, LAMBDA record : Prop(record, K_selected) = JsTrue)
        strip(record) ==
            [key \in DOMAIN record \ {K_selected, K_equivalence_class_id,
                                      K_equivalence_class_name} |-> record[key]]
    IN [i \in 1..Len(dedupedRecords) |-> strip(dedupedRecords[i])]

\* An artifact of the two-phase API: null, or an object with type, a list
\* of child artifacts (absent, or an array), and data.
NullArtifact == [tag |-> "null", type |-> "", hasArtifacts |-> FALSE, artifacts |-> <<>>, data |-> NoData]

Artifact(type, data) ==
    [tag |-> "object", type |-> type, hasArtifacts |-> FALSE, artifacts |-> <<>>, data |-> data]

Group(children, data) ==
    [tag |-> "object", type |-> "group", hasArtifacts |-> TRUE, artifacts |-> children, data |-> data]

\* The artifacts argument: null, or an array of artifacts.
NullArtifacts == [tag |-> "null", value |-> <<>>]

Artifacts(list) == [tag |-> "array", value |-> list]

Extracted(records) == [threw |-> FALSE, records |-> records]

\* Reading a property of null raises a TypeError.
TypeError == [threw |-> TRUE, records |-> <<>>]

RECURSIVE childData(_)
childData(children) ==
    IF children = <<>>
    THEN Extracted(<<>>)
    ELSE IF Head(children).tag = "null"
    THEN TypeError
    ELSE LET rest == childData(Tail(children)) IN
         IF rest.threw
         THEN TypeError
         ELSE IF TruthyData(Head(children).data)
         THEN Extracted(<<Head(children).data.value>> \o rest.records)
         ELSE rest

\* Mutant: children are collected last to first.
extractArtifactData_Reversed(artifacts) ==
    IF artifacts.tag # "array" \/ Len(artifacts.value) = 0
    THEN Extracted(<<>>)
    ELSE
    LET artifact == artifacts.value[1] IN
    IF artifact.tag = "null"
    THEN TypeError
    ELSE IF artifact.type = "group" /\ artifact.hasArtifacts /\ Len(artifact.artifacts) > 0
    THEN LET r == childData(artifact.artifacts) IN
         IF r.threw THEN r
         ELSE Extracted([i \in 1..Len(r.records) |-> r.records[Len(r.records) + 1 - i]])
    ELSE IF artifact.data.tag = "array"
    THEN Extracted(artifact.data.value)
    ELSE IF TruthyData(artifact.data)
    THEN Extracted(<<artifact.data.value>>)
    ELSE Extracted(<<>>)

\* extractArtifactData(artifacts) of the two-phase operations.
extractArtifactData(artifacts) ==
    IF artifacts.tag # "array" \/ Len(artifacts.value) = 0
    THEN Extracted(<<>>)
    ELSE
    LET artifact == artifacts.value[1] IN
    IF artifact.tag = "null"
    THEN TypeError
    ELSE IF artifact.type = "group" /\ artifact.hasArtifacts /\ Len(artifact.artifacts) > 0
    THEN childData(artifact.artifacts)
    ELSE IF artifact.data.tag = "array"
    THEN Extracted(artifact.data.value)
    ELSE IF TruthyData(artifact.data)
    THEN Extracted(<<artifact.data.value>>)
    ELSE Extracted(<<>>)

(***************************************************************************)
(* Operations: pollTaskUntilComplete / runTaskWithPolling                  *)
(***************************************************************************)
NoResult == [status |-> "none", taskId |-> Undefined, artifactId |-> Undefined, error |-> <<>>]

\* Mutant: the returned object lacks the task id.
Return_NoTaskId(st, id, artifact) ==
    [status |-> st, taskId |-> Undefined, artifactId |-> artifact, error |-> <<>>]

Return(st, id, artifact) == [status |-> st, taskId |-> id, artifactId |-> artifact, error |-> <<>>]

Throw(message) == [status |-> "thrown", taskId |-> Undefined, artifactId |-> Undefined, error |-> message]

Killed == [status |-> "killed", taskId |-> Undefined, artifactId |-> Undefined, error |-> <<>>]

\* Mutant: the remote error detail is dropped from the message.
TaskFailed_NoDetail(st) == <<"Task failed: ", "Unknown error">>

TaskFailed(st) == <<"Task failed: ", Or(st.error, "Unknown error")>>

Min(a, b) == IF a <= b THEN a ELSE b

\* Mutant: the backoff has no ceiling.
NextInterval_NoCap(i) == (i * 3) \div 2

\* Math.min(pollInterval * 1.5, MAX_POLL_INTERVAL_MS).  Every interval the
\* loop reaches below the cap is even, so the product is an exact integer.
NextInterval(i) == Min((i * 3) \div 2, MAX_POLL_INTERVAL_MS)

\* Mutant: the budget is measured from the clock's origin, not from startTime.
WithinBudget_NoStart(t, start) == t < MAX_POLL_TIME_MS

\* Date.now() - startTime < MAX_POLL_TIME_MS
WithinBudget(t, start) == t - start < MAX_POLL_TIME_MS

\* Mutant: a paused task counts as completed.
IsCompleted_OrPaused(st) == st.status \in {"completed", "paused"}

\* Mutant: any status at all counts as completion.
IsCompleted_AnyStatus(st) == st.status # Undefined

\* status.status === 'completed'
IsCompleted(st) == st.status = "completed"

\* Mutant: every status but 'completed' and 'running' counts as a failure.
IsFailed_NotRunning(st) == st.status \notin {"completed", "running"}

\* status.status === 'failed'
IsFailed(st) == st.status = "failed"

\* Mutant: the loop does not sleep.
SleepUntil_NoWait(t, ms) == t

\* Date.now() once Utilities.sleep(ms), started at t, has returned.
SleepUntil(t, ms) == t + ms

NoStoreOp == [kind |-> "none", id |-> Undefined]

\* httpCode when the request threw before anything was sent.
NotSent == 0 - 1

CodeOf(r, resp) == IF r.fetched THEN resp.code ELSE NotSent

Count(n) == Min(n + 1, MaxQueries)

\* What the run* entry points return after the sheet was written.
Completed(n) ==
    [status |-> "completed", taskId |-> Undefined, artifactId |-> Undefined,
     error |-> <<>>, rowCount |-> n]

Kinds == {"rank", "screen", "dedupe", "agent", "merge"}

\* The sheetName argument each operation passes to writeResultsToSheet.
SheetNameOf(k) ==
    CASE k = "rank" -> <<"Rank Results">>
      [] k = "screen" -> <<"Screen Results">>
      [] k = "dedupe" -> <<"Dedupe Results">>
      [] k = "agent" -> <<"Agent Results">>
      [] k = "merge" -> <<"Merge Results">>
      [] OTHER -> <<"Results">>

\* resultRecords of the operation kind k.
ResultRecords(k, taskResult) ==
    IF k = "screen" THEN extractScreenResults(taskResult) ELSE extractResultData(taskResult)

(***************************************************************************)
(* Sample data                                                             *)
(***************************************************************************)
S_Name == <<"N", "a", "m", "e">>

S_Emp == <<"E", "m", "p">>

S_A == <<"A">>

S_B == <<"B">>

\* [["Name","Emp"],["Apple",150000],["Acme",500]]
GoodSelection ==
    Range(<< <<JsString(S_Name), JsString(S_Emp)>>,
             <<JsString(<<"A", "p", "p", "l", "e">>), JsNumber(<<"1", "5", "0", "0", "0", "0">>)>>,
             <<JsString(<<"A", "c", "m", "e">>), JsNumber(<<"5", "0", "0">>)>> >>)

\* A header row only.
HeaderOnlySelection == Range(<< <<JsString(S_Name), JsString(S_Emp)>> >>)

\* Data rows whose cells are all empty.
BlankSelection ==
    Range(<< <<JsString(S_Name), JsString(S_Emp)>>, <<JsString(<<>>), JsString(<<>>)>> >>)

\* "Name" and " Name" are the same header once trimmed.
DuplicateSelection ==
    Range(<< <<JsString(S_Name), JsString(<<" ">> \o S_Name)>>,
             <<JsString(S_A), JsString(S_B)>> >>)

InvalidSelections == {NoRange, HeaderOnlySelection, BlankSelection, DuplicateSelection}

\* {selected: true, Name: "A", equivalence_class_id: 1, equivalence_class_name: "A"}
SelectedRecord ==
    [key \in {K_selected, S_Name, K_equivalence_class_id, K_equivalence_class_name} |->
        CASE key = K_selected -> JsTrue
          [] key = K_equivalence_class_id -> JsNumber(<<"1">>)
          [] OTHER -> JsString(S_A)]

\* {selected: false, Name: "B", equivalence_class_id: 1, equivalence_class_name: "A"}
DuplicateRecord ==
    [key \in {K_selected, S_Name, K_equivalence_class_id, K_equivalence_class_name} |->
        CASE key = K_selected -> JsFalse
          [] key = K_equivalence_class_id -> JsNumber(<<"1">>)
          [] key = S_Name -> JsString(S_B)
          [] OTHER -> JsString(S_A)]

\* {Name: "A", research: {screening_result: "B"}}
ScreenedRecord ==
    [key \in {S_Name, K_research} |->
        IF key = S_Name
        THEN JsString(S_A)
        ELSE JsObject([k \in {K_screening_result} |-> JsString(S_B)])]

SampleRecords == {SelectedRecord, DuplicateRecord, ScreenedRecord}

\* Result bodies from which the normalizers get no record.
EmptyPayloads == {NullResult, TaskResult(NoData), TaskResult(NullData), TaskResult(ArrayData(<<>>))}

FullPayloads ==
    {TaskResult(ArrayData(<<SelectedRecord, DuplicateRecord>>)),
     TaskResult(ArrayData(<<ScreenedRecord>>)),
     TaskResult(RecordData(SelectedRecord))}

\* The polling life cycle: two tasks, slow and fast requests, one operation
\* kind, one result body.
PollingScenario ==
    [kinds |-> {"rank"},
     tasks |-> TaskIds,
     delays |-> Delays,
     selections |-> {GoodSelection, BlankSelection},
     payloads |-> {TaskResult(ArrayData(<<SelectedRecord, DuplicateRecord>>))}]

\* The operations: every kind, every selection and result body, one task,
\* requests that take no time.
OperationScenario ==
    [kinds |-> Kinds,
     tasks |-> {TaskIdSeq[1]},
     delays |-> {0},
     selections |-> {GoodSelection} \cup InvalidSelections,
     payloads |-> EmptyPayloads \cup FullPayloads]

\* The responses the service may give to GET /tasks/<t>/result.
ResultResponses(t) ==
    {[code |-> 200, body |-> b] : b \in scenario.payloads}
      \cup {[code |-> c, body |-> NoBody] : c \in ErrorCodes}

NoCall == [fn |-> "none", done |-> TRUE]

StartIn(sc, c) ==
    /\ userProps = EmptyObject
    /\ remote = [t \in TaskIds |-> "none"]
    /\ now = 0
    /\ pc = "idle"
    /\ op = "none"
    /\ argTaskId = Undefined
    /\ taskId = Undefined
    /\ startTime = 0
    /\ pollInterval = 0
    /\ status = NoBody
    /\ result = NoResult
    /\ queries = 0
    /\ httpCode = NotSent
    /\ lastStoreOp = NoStoreOp
    /\ scenario = sc
    /\ sheets = <<>>
    /\ selection = NoRange
    /\ kind = "none"
    /\ payload = NoPayload
    /\ outcome = NoResult
    /\ clearCalls = 0
    /\ written = 0
    /\ call = c

Init == StartIn(PollingScenario, NoCall)

\* The user stores an API key (sidebar or settings dialog).
SaveApiKey ==
    /\ pc = "idle"
    /\ \E k \in ApiKeys :
         /\ getApiKey(userProps) # k
         /\ userProps' = saveApiKey(userProps, k)
    /\ UNCHANGED <<remote, now, pc, op, argTaskId, taskId, startTime, pollInterval,
                   status, result, queries, httpCode, lastStoreOp>>
    /\ UNCHANGED <<scenario, sheets, selection, kind, payload, outcome, clearCalls,
                   written, call>>

\* The user starts an operation: runRank, runScreen, runDedupe and
\* runAgentMap read the selection; runMerge is handed its records.
RunOperation ==
    /\ pc = "idle"
    /\ Len(sheets) < MaxSheets
    /\ \E k \in scenario.kinds, sel \in scenario.selections :
         LET records == IF k = "merge" THEN Converted(<<>>) ELSE selectionToRecords(sel) IN
         /\ kind' = k
         /\ selection' = (IF k = "merge" THEN NoRange ELSE sel)
         /\ IF records.threw
            THEN /\ pc' = "done"
                 /\ outcome' = Throw(records.error)
            ELSE /\ FreshTaskIds \cap scenario.tasks # {}
                 /\ pc' = "submit"
                 /\ UNCHANGED outcome
    /\ op' = "run"
    /\ argTaskId' = Undefined
    /\ UNCHANGED <<userProps, remote, now, taskId, startTime, pollInterval,
                   status, result, queries, httpCode, lastStoreOp>>
    /\ UNCHANGED <<scenario, sheets, payload, clearCalls, written, call>>

\* submitRank/.../submitTask, then the entry of the poll loop: the id is
\* saved, startTime and pollInterval are initialised.
Submit ==
    /\ pc = "submit"
    /\ \E t \in FreshTaskIds, d \in scenario.delays :
       \E resp \in SubmitResponses(t) :
         LET r == makeApiRequest(userProps, resp) IN
         /\ now' = now + d
         /\ httpCode' = CodeOf(r, resp)
         /\ IF r.threw
            THEN /\ result' = Throw(r.error)
                 /\ outcome' = Throw(r.error)
                 /\ pc' = "done"
                 /\ UNCHANGED <<userProps, remote, taskId, startTime,
                                pollInterval, lastStoreOp>>
            ELSE /\ remote' = [remote EXCEPT ![t] = "live"]
                 /\ taskId' = r.body.task_id
                 /\ userProps' = saveLastTaskId(userProps, r.body.task_id)
                 /\ lastStoreOp' = [kind |-> "save", id |-> r.body.task_id]
                 /\ startTime' = now'
                 /\ pollInterval' = INITIAL_POLL_INTERVAL_MS
                 /\ pc' = "head"
                 /\ UNCHANGED <<result, outcome>>
    /\ UNCHANGED <<op, argTaskId, status, queries>>
    /\ UNCHANGED <<scenario, sheets, selection, kind, payload, clearCalls, written, call>>

\* The loop condition, then Utilities.sleep(pollInterval) or the timeout
\* return, which the run* entry point hands on as it is.
LoopHead ==
    /\ pc = "head"
    /\ IF WithinBudget(now, startTime)
       THEN /\ now' = SleepUntil(now, pollInterval)
            /\ pc' = "query"
            /\ UNCHANGED <<result, outcome>>
       ELSE /\ result' = Return("timeout", taskId, Undefined)
            /\ outcome' = Return("timeout", taskId, Undefined)
            /\ pc' = "done"
            /\ UNCHANGED now
    /\ UNCHANGED <<userProps, remote, op, argTaskId, taskId, startTime, pollInterval,
                   status, queries, httpCode, lastStoreOp>>
    /\ UNCHANGED <<scenario, sheets, selection, kind, payload, clearCalls, written, call>>

\* getTaskStatus(taskId) and the rest of the loop body.
PollStatus ==
    /\ pc = "query"
    /\ \E resp \in StatusResponses(taskId), d \in scenario.delays :
         LET r == getTaskStatus(userProps, resp) IN
         /\ now' = now + d
         /\ queries' = Count(queries)
         /\ httpCode' = CodeOf(r, resp)
         /\ IF r.threw
            THEN /\ result' = Throw(r.error)
                 /\ outcome' = Throw(r.error)
                 /\ pc' = "done"
                 /\ UNCHANGED <<userProps, status, pollInterval, lastStoreOp, clearCalls>>
            ELSE /\ status' = r.body
                 /\ IF IsCompleted(r.body)
                    THEN /\ userProps' = clearLastTaskId(userProps)
                         /\ lastStoreOp' = [kind |-> "clear", id |-> Undefined]
                         /\ clearCalls' = clearCalls + 1
                         /\ result' = Return("completed", taskId, r.body.artifact_id)
                         /\ pc' = "done"
                         /\ UNCHANGED <<pollInterval, outcome>>
                    ELSE IF IsFailed(r.body)
                    THEN /\ userProps' = clearLastTaskId(userProps)
                         /\ lastStoreOp' = [kind |-> "clear", id |-> Undefined]
                         /\ clearCalls' = clearCalls + 1
                         /\ result' = Throw(TaskFailed(r.body))
                         /\ outcome' = Throw(TaskFailed(r.body))
                         /\ pc' = "done"
                         /\ UNCHANGED pollInterval
                    ELSE /\ pollInterval' = NextInterval(pollInterval)
                         /\ pc' = "head"
                         /\ UNCHANGED <<userProps, lastStoreOp, result, outcome, clearCalls>>
    /\ UNCHANGED <<remote, op, argTaskId, taskId, startTime>>
    /\ UNCHANGED <<scenario, sheets, selection, kind, payload, written, call>>

\* After the poll loop returned 'completed': getTaskResult, the normalizer of
\* the operation kind, writeResultsToSheet, and the return.
FetchAndWrite ==
    /\ pc = "done"
    /\ op = "run"
    /\ result.status = "completed"
    /\ outcome = NoResult
    /\ \E resp \in ResultResponses(taskId), d \in scenario.delays :
         LET r == getTaskResult(userProps, resp) IN
         /\ now' = now + d
         /\ httpCode' = CodeOf(r, resp)
         /\ IF r.threw
            THEN /\ outcome' = Throw(r.error)
                 /\ UNCHANGED <<payload, sheets, written>>
            ELSE LET resultRecords == ResultRecords(kind, r.body)
                     sheet == writeResultsToSheet(sheets, resultRecords, SheetNameOf(kind))
                 IN
                 /\ payload' = r.body
                 /\ IF sheet.threw
                    THEN /\ outcome' = Throw(sheet.error)
                         /\ UNCHANGED <<sheets, written>>
                    ELSE /\ sheets' = sheet.sheets
                         /\ written' = written + 1
                         /\ outcome' = Completed(Len(resultRecords))
    /\ UNCHANGED <<userProps, remote, pc, op, argTaskId, taskId, startTime, pollInterval,
                   status, result, queries, lastStoreOp>>
    /\ UNCHANGED <<scenario, selection, kind, clearCalls, call>>

\* The host ends the invocation (execution time limit, closed document).
Kill ==
    /\ pc \in {"submit", "head", "query"}
    /\ pc' = "done"
    /\ result' = Killed
    /\ outcome' = Killed
    /\ UNCHANGED <<userProps, remote, now, op, argTaskId, taskId, startTime, pollInterval,
                   status, queries, httpCode, lastStoreOp>>
    /\ UNCHANGED <<scenario, sheets, selection, kind, payload, clearCalls, written, call>>

\* checkPreviousTask(arg): one status query, no loop.  When it returns
\* 'completed' the caller has yet to decide what to do with the results.
CheckPreviousTask ==
    /\ pc = "idle"
    /\ \E arg \in TaskIds \cup {Undefined} :
         LET id == Or(arg, getLastTaskId(userProps)) IN
         /\ op' = "check"
         /\ argTaskId' = arg
         /\ pc' = "done"
         /\ startTime' = now
         /\ IF ~Truthy(id)
            THEN /\ result' = Throw(<<"No previous task found. Run an operation first.">>)
                 /\ outcome' = Throw(<<"No previous task found. Run an operation first.">>)
                 /\ taskId' = Null
                 /\ UNCHANGED <<userProps, now, status, queries, httpCode, lastStoreOp,
                                clearCalls>>
            ELSE \E resp \in StatusResponses(id), d \in scenario.delays :
                 LET r == getTaskStatus(userProps, resp) IN
                 /\ taskId' = id
                 /\ now' = now + d
                 /\ queries' = Count(queries)
                 /\ httpCode' = CodeOf(r, resp)
                 /\ IF r.threw
                    THEN /\ result' = Throw(r.error)
                         /\ outcome' = Throw(r.error)
                         /\ UNCHANGED <<userProps, status, lastStoreOp, clearCalls>>
                    ELSE /\ status' = r.body
                         /\ IF IsCompleted(r.body)
                            THEN /\ userProps' = clearLastTaskId(userProps)
                                 /\ lastStoreOp' = [kind |-> "clear", id |-> Undefined]
                                 /\ clearCalls' = clearCalls + 1
                                 /\ result' = Return("completed", id, r.body.artifact_id)
                                 /\ UNCHANGED outcome
                            ELSE IF IsFailed(r.body)
                            THEN /\ userProps' = clearLastTaskId(userProps)
                                 /\ lastStoreOp' = [kind |-> "clear", id |-> Undefined]
                                 /\ clearCalls' = clearCalls + 1
                                 /\ result' = Throw(TaskFailed(r.body))
                                 /\ outcome' = Throw(TaskFailed(r.body))
                            ELSE /\ result' = Return("running", id, Undefined)
                                 /\ outcome' = Return("running", id, Undefined)
                                 /\ UNCHANGED <<userProps, lastStoreOp, clearCalls>>
    /\ UNCHANGED <<remote, pollInterval>>
    /\ UNCHANGED <<scenario, sheets, selection, kind, payload, written, call>>

\* String(status.status) in the message of retrieveTaskResults.
StatusText(st) == IF st.status = Undefined THEN "undefined" ELSE st.status

\* Mutant: only a failed task is turned away.
NotCompleted_OnlyFailed(st) == st.status = "failed"

\* status.status !== 'completed'
NotCompleted(st) == st.status # "completed"

\* retrieveTaskResults(id, sheetName): the status query, and for a completed
\* task the result request, the normalizer, the write and the clear.
retrieveTaskResults(id, sheetName) ==
    \E resp \in StatusResponses(id), d \in scenario.delays :
      LET st == getTaskStatus(userProps, resp) IN
      /\ queries' = Count(queries)
      /\ IF st.threw
         THEN /\ outcome' = Throw(st.error)
              /\ now' = now + d
              /\ httpCode' = CodeOf(st, resp)
              /\ UNCHANGED <<userProps, lastStoreOp, clearCalls, payload, sheets, written,
                             status>>
         ELSE IF NotCompleted(st.body)
         THEN /\ outcome' = Throw(<<"Task is not completed. Status: ", StatusText(st.body)>>)
              /\ status' = st.body
              /\ now' = now + d
              /\ httpCode' = CodeOf(st, resp)
              /\ UNCHANGED <<userProps, lastStoreOp, clearCalls, payload, sheets, written>>
         ELSE \E resp2 \in ResultResponses(id), d2 \in scenario.delays :
              LET r == getTaskResult(userProps, resp2) IN
              /\ status' = st.body
              /\ now' = now + d + d2
              /\ httpCode' = CodeOf(r, resp2)
              /\ IF r.threw
                 THEN /\ outcome' = Throw(r.error)
                      /\ UNCHANGED <<userProps, lastStoreOp, clearCalls, payload, sheets,
                                     written>>
                 ELSE LET records == extractResultData(r.body)
                          sheet == writeResultsToSheet(sheets, records, sheetName)
                      IN
                      /\ payload' = r.body
                      /\ IF Len(records) = 0
                         THEN /\ outcome' = Throw(<<"Task completed but no results found.">>)
                              /\ UNCHANGED <<userProps, lastStoreOp, clearCalls, sheets,
                                             written>>
                         ELSE /\ sheets' = sheet.sheets
                              /\ written' = written + 1
                              /\ userProps' = clearLastTaskId(userProps)
                              /\ lastStoreOp' = [kind |-> "clear", id |-> Undefined]
                              /\ clearCalls' = clearCalls + 1
                              /\ outcome' = Completed(Len(records))

\* showCheckPreviousTask after checkPreviousTask returned 'completed': the
\* user answers YES and retrieveTaskResults(result.taskId, 'Results') runs.
WritePreviousResults ==
    /\ pc = "done"
    /\ op = "check"
    /\ result.status = "completed"
    /\ outcome = NoResult
    /\ Len(sheets) < MaxSheets
    /\ retrieveTaskResults(result.taskId, <<"Results">>)
    /\ UNCHANGED <<remote, pc, op, argTaskId, taskId, startTime, pollInterval, result>>
    /\ UNCHANGED <<scenario, selection, kind, call>>

\* retrieveTaskResults called on its own with an explicit task id.
RetrieveTaskResults ==
    /\ pc = "idle"
    /\ Len(sheets) < MaxSheets
    /\ \E id \in TaskIds :
         /\ argTaskId' = id
         /\ taskId' = id
         /\ retrieveTaskResults(id, <<"Results">>)
    /\ pc' = "done"
    /\ op' = "retrieve"
    /\ startTime' = now
    /\ UNCHANGED <<remote, pollInterval, result>>
    /\ UNCHANGED <<scenario, selection, kind, call>>

\* The remote task reaches a terminal status; it never leaves it.
RemoteProgress ==
    /\ \E t \in TaskIds, s \in {"completed", "failed"} :
         /\ remote[t] = "live"
         /\ remote' = [remote EXCEPT ![t] = s]
    /\ UNCHANGED <<userProps, now, pc, op, argTaskId, taskId, startTime, pollInterval,
                   status, result, queries, httpCode, lastStoreOp>>
    /\ UNCHANGED <<scenario, sheets, selection, kind, payload, outcome, clearCalls,
                   written, call>>

\* The invocation is over (it returned, it threw, the user declined the
\* write, or the host ended it); the client is ready for the next one, at a
\* later time.  The locals of the invocation are gone.
Finish ==
    /\ pc = "done"
    /\ pc' = "idle"
    /\ op' = "none"
    /\ argTaskId' = Undefined
    /\ now' = 0
    /\ taskId' = Undefined
    /\ startTime' = 0
    /\ pollInterval' = 0
    /\ status' = NoBody
    /\ result' = NoResult
    /\ queries' = 0
    /\ httpCode' = NotSent
    /\ selection' = NoRange
    /\ kind' = "none"
    /\ payload' = NoPayload
    /\ outcome' = NoResult
    /\ clearCalls' = 0
    /\ written' = 0
    /\ UNCHANGED <<userProps, remote, lastStoreOp, scenario, sheets, call>>

Next ==
    \/ SaveApiKey
    \/ RunOperation
    \/ Submit
    \/ LoopHead
    \/ PollStatus
    \/ FetchAndWrite
    \/ Kill
    \/ CheckPreviousTask
    \/ WritePreviousResults
    \/ RetrieveTaskResults
    \/ RemoteProgress
    \/ Finish

Spec == Init /\ [][Next]_vars

\* The operations with every kind, selection and result body.
InitOperations == StartIn(OperationScenario, NoCall)

OpSpec == InitOperations /\ [][Next]_vars

\* The invocations the host lets run to their end: the runtime executes an
\* invocation's next step (a sleep returns, a request returns or raises),
\* while the remote task need never reach a terminal status.
NextUnkilled ==
    \/ SaveApiKey
    \/ RunOperation
    \/ Submit
    \/ LoopHead
    \/ PollStatus
    \/ FetchAndWrite
    \/ CheckPreviousTask
    \/ WritePreviousResults
    \/ RetrieveTaskResults
    \/ RemoteProgress
    \/ Finish

\* One invocation after another on a single task.
LiveScenario == [PollingScenario EXCEPT !.tasks = {TaskIdSeq[1]}]

InitLive == StartIn(LiveScenario, NoCall)

LiveSpec ==
    /\ InitLive
    /\ [][NextUnkilled]_vars
    /\ WF_vars(Submit)
    /\ WF_vars(LoopHead)
    /\ WF_vars(PollStatus)

(***************************************************************************)
(* The helper functions applied on their own to every input of a bounded   *)
(* set: makeApiRequest to every response, the normalizers to every payload *)
(***************************************************************************)
SeqsUpTo(S, n) == UNION {[1..k -> S] : k \in 0..n}

DataShapes ==
    {NoData, NullData}
      \cup {ArrayData(l) : l \in SeqsUpTo(SampleRecords, MaxRecords)}
      \cup {RecordData(r) : r \in SampleRecords}

ResultInputs == {NullResult, NoPayload} \cup {TaskResult(d) : d \in DataShapes}

\* A child of a group artifact: null, or an object that may have data.
NullChild == [tag |-> "null", data |-> NoData]

Child(data) == [tag |-> "object", data |-> data]

Children ==
    {NullChild, Child(NoData), Child(NullData)}
      \cup {Child(RecordData(r)) : r \in SampleRecords}

FirstArtifacts ==
    {NullArtifact}
      \cup {Artifact(type, d) : type \in {"table", "group"}, d \in DataShapes}
      \cup {Group(c, d) : c \in SeqsUpTo(Children, MaxChildren),
                          d \in {NoData, RecordData(SelectedRecord),
                                 ArrayData(<<DuplicateRecord>>)}}

ArtifactInputs ==
    {NullArtifacts, Artifacts(<<>>)}
      \cup {Artifacts(<<a>>) : a \in FirstArtifacts}
      \cup {Artifacts(<<a, NullArtifact>>) : a \in {Artifact("table", NoData),
                                                    Artifact("table", RecordData(SelectedRecord))}}

HttpCodes == {0, 200, 201, 302, 400, 401, 403, 404, 422, 429, 500, 503}

ResponseTexts ==
    {ResponseText(TRUE, d, m, "{}") :
        d \in {Undefined, "", "Rate limit exceeded", DetailObject},
        m \in {Undefined, "", "Bad request"}}
      \cup {ResponseText(FALSE, Undefined, Undefined, "<html>Bad Gateway</html>")}

RequestInputs ==
    {[props |-> p, resp |-> [code |-> c, body |-> NoBody, text |-> t]] :
        p \in {EmptyObject} \cup {saveApiKey(EmptyObject, k) : k \in ApiKeys},
        c \in HttpCodes, t \in ResponseTexts}

S_Old == <<"o", "l", "d">>

\* What a screened record may hold under research.
ResearchValues ==
    {JsUndefined, JsNull, JsString(S_B), JsObject(EmptyObject)}
      \cup {JsObject([k \in {K_screening_result} |-> x]) :
              x \in {JsString(S_B), JsString(<<>>), JsFalse, JsNumber(<<"0">>)}}

\* {Name: "A"} with a reason and a research member, each left out when
\* undefined.
ScreenRecord(reason, research) ==
    [key \in {S_Name} \cup (IF reason = JsUndefined THEN {} ELSE {K_reason})
                      \cup (IF research = JsUndefined THEN {} ELSE {K_research}) |->
        CASE key = K_reason -> reason
          [] key = K_research -> research
          [] OTHER -> JsString(S_A)]

ScreenRecords ==
    {ScreenRecord(reason, research) :
        reason \in {JsUndefined, JsString(S_Old)}, research \in ResearchValues}

ScreenInputs == {TaskResult(ArrayData(l)) : l \in SeqsUpTo(ScreenRecords, MaxRecords)}

Pending(fn, arg) == [fn |-> fn, arg |-> arg, done |-> FALSE, ret |-> <<>>]

Calls ==
    {Pending("makeApiRequest", a) : a \in RequestInputs}
      \cup {Pending("extractResultData", a) : a \in ResultInputs}
      \cup {Pending("extractArtifactData", a) : a \in ArtifactInputs}
      \cup {Pending("extractScreenResults", a) : a \in ScreenInputs}

\* No operation runs: nothing is selected, submitted or answered.
QuietScenario ==
    [kinds |-> {}, tasks |-> {}, delays |-> {}, selections |-> {}, payloads |-> {}]

InitHelpers == \E c \in Calls : StartIn(QuietScenario, c)

CallMakeApiRequest ==
    /\ call.fn = "makeApiRequest"
    /\ ~call.done
    /\ call' = [call EXCEPT !.done = TRUE,
                            !.ret = makeApiRequest(call.arg.props, call.arg.resp)]
    /\ UNCHANGED clientVars

CallExtractResultData ==
    /\ call.fn = "extractResultData"
    /\ ~call.done
    /\ call' = [call EXCEPT !.done = TRUE, !.ret = extractResultData(call.arg)]
    /\ UNCHANGED clientVars

CallExtractArtifactData ==
    /\ call.fn = "extractArtifactData"
    /\ ~call.done
    /\ call' = [call EXCEPT !.done = TRUE, !.ret = extractArtifactData(call.arg)]
    /\ UNCHANGED clientVars

CallExtractScreenResults ==
    /\ call.fn = "extractScreenResults"
    /\ ~call.done
    /\ call' = [call EXCEPT !.done = TRUE, !.ret = extractScreenResults(call.arg)]
    /\ UNCHANGED clientVars

NextHelpers ==
    \/ CallMakeApiRequest
    \/ CallExtractResultData
    \/ CallExtractArtifactData
    \/ CallExtractScreenResults

HelperSpec == InitHelpers /\ [][NextHelpers]_vars

(***************************************************************************)
(* The conversions applied on their own: selectionToRecords to every grid  *)
(* of a bounded set and back through the data array of                     *)
(* writeResultsToSheet, columnToLetter_ to every index, the data array to  *)
(* every result list, and the sheet name search to every set of sheets     *)
(***************************************************************************)
S_name == <<"n", "a", "m", "e">>

S_1 == <<"1">>

S_score == <<"s", "c", "o", "r", "e">>

\* Header cells: blank, "Name", " Name", "name", "Column B", "1".
HeaderCells ==
    {JsString(<<>>), JsString(S_Name), JsString(<<" ">> \o S_Name),
     JsString(S_name), JsString(ColumnPrefix \o S_B), JsString(S_1)}

ColumnPatterns == {"empty", "blank", "zero", "first", "last"}

\* The cell of data row i of n in a column of the given pattern.
PatternCell(pattern, i, n) ==
    CASE pattern = "empty" ->
           (IF i % 3 = 1 THEN JsString(<<>>) ELSE IF i % 3 = 2 THEN JsNull ELSE JsUndefined)
      [] pattern = "blank" -> JsString(<<" ">>)
      [] pattern = "zero" -> (IF i = 1 THEN JsNumber(<<"0">>) ELSE JsString(<<>>))
      [] pattern = "first" -> (IF i = 1 THEN JsString(S_A) ELSE JsString(<<>>))
      [] OTHER -> (IF i = n THEN JsString(S_B) ELSE JsString(<<>>))

Columns == [header : HeaderCells, pattern : ColumnPatterns]

\* The selection of n data rows whose columns are cols.
Grid(cols, n) ==
    Range([i \in 1..(n + 1) |->
             [j \in 1..Len(cols) |->
                 IF i = 1 THEN cols[j].header ELSE PatternCell(cols[j].pattern, i - 1, n)]])

Grids ==
    {NoRange}
      \cup {Grid(cols, n) : cols \in SeqsUpTo(Columns, MaxCols) \ {<<>>}, n \in 0..MaxRows}

\* A record of a result list, its keys in the order of the response text.
ResultObject(inserted) ==
    Obj(OwnKeys(inserted),
        [key \in {inserted[i] : i \in 1..Len(inserted)} |->
            CASE key = S_Name -> JsString(S_A)
              [] key = S_Emp -> JsNumber(<<"5", "0", "0">>)
              [] key = S_score -> JsNumber(<<"0">>)
              [] key = K_research -> JsObject([k \in {K_screening_result} |-> JsString(S_B)])
              [] OTHER -> JsNull])

ResultObjects ==
    {ResultObject(inserted) :
        inserted \in {<<S_Name, S_Emp, S_score>>, <<S_Name, S_score>>,
                      <<S_score, S_Name, K_research>>, <<S_Emp, S_1, K_reason>>}}

\* Sheets the spreadsheet may hold when a result sheet is written.
S_Results == <<"Results">>

ExistingNames ==
    <<S_Results, S_Results \o <<" (", "1", ")">>, S_Results \o <<" (", "2", ")">>,
      <<"Sheet1">>>>

ExistingSheets ==
    {SelectSeq([i \in 1..Len(ExistingNames) |-> [name |-> ExistingNames[i], rows |-> <<>>]],
               LAMBDA sheet : sheet.name \in chosen) :
        chosen \in SUBSET {ExistingNames[i] : i \in 1..Len(ExistingNames)}}

Conversions ==
    {Pending(fn, sel) : fn \in {"selectionToRecords", "getSelectionInfo"}, sel \in Grids}
      \cup {Pending("columnToLetter_", [index |-> j]) : j \in 0..MaxIndex}
      \cup {Pending("resultData", [objects |-> l]) :
              l \in SeqsUpTo(ResultObjects, MaxRecords) \ {<<>>}}
      \cup {Pending("writeResultsToSheet", [ss |-> ss, records |-> l]) :
              ss \in ExistingSheets, l \in {<<>>, <<SelectedRecord>>}}

InitConverter == \E c \in Conversions : StartIn(QuietScenario, c)

CallSelectionToRecords ==
    /\ call.fn = "selectionToRecords"
    /\ ~call.done
    /\ call' = [call EXCEPT !.done = TRUE, !.ret = selectionToRecords(call.arg)]
    /\ UNCHANGED clientVars

CallGetSelectionInfo ==
    /\ call.fn = "getSelectionInfo"
    /\ ~call.done
    /\ call' = [call EXCEPT !.done = TRUE, !.ret = getSelectionInfo(call.arg)]
    /\ UNCHANGED clientVars

\* The records of a conversion written back: each record is the object
\* whose keys were inserted in the order of the headers (record[headers[k]]
\* = ... for k = 0, 1, ...), and the data array is read again as a selection.
CallWriteBack ==
    /\ call.fn = "selectionToRecords"
    /\ call.done
    /\ ~call.ret.threw
    /\ LET inserted == headers(call.arg.values)
           objects == [n \in 1..Len(call.ret.records) |->
                          Obj(OwnKeys(inserted), call.ret.records[n])]
           data == resultData(objects)
       IN call' = [call EXCEPT !.fn = "writeBack",
                               !.ret = [records |-> call.ret.records,
                                        data |-> data,
                                        again |-> selectionToRecords(Range(data))]]
    /\ UNCHANGED clientVars

CallColumnToLetter ==
    /\ call.fn = "columnToLetter_"
    /\ ~call.done
    /\ call' = [call EXCEPT !.done = TRUE, !.ret = columnToLetter_(call.arg.index)]
    /\ UNCHANGED clientVars

CallResultData ==
    /\ call.fn = "resultData"
    /\ ~call.done
    /\ call' = [call EXCEPT !.done = TRUE, !.ret = resultData(call.arg.objects)]
    /\ UNCHANGED clientVars

CallWriteResultsToSheet ==
    /\ call.fn = "writeResultsToSheet"
    /\ ~call.done
    /\ call' = [call EXCEPT !.done = TRUE,
                            !.ret = writeResultsToSheet(call.arg.ss, call.arg.records,
                                                        S_Results)]
    /\ UNCHANGED clientVars

NextConverter ==
    \/ CallSelectionToRecords
    \/ CallGetSelectionInfo
    \/ CallWriteBack
    \/ CallColumnToLetter
    \/ CallResultData
    \/ CallWriteResultsToSheet

ConverterSpec == InitConverter /\ [][NextConverter]_vars

(***************************************************************************)
(* The settings operations: run one at a time, and run by two invocations  *)
(* (a menu function and a sidebar call of the same user) whose             *)
(* getSettings_ and saveSettings_ steps interleave, each working on the    *)
(* settings object it parsed                                               *)
(***************************************************************************)
Writers == {"saveApiKey", "saveLastTaskId", "clearLastTaskId"}

Readers == {"getApiKey", "getLastTaskId", "isConfigured"}

\* The operations with their arguments.
SettingsCalls ==
    {[op |-> "saveApiKey", arg |-> k] : k \in ApiKeys}
      \cup {[op |-> "saveLastTaskId", arg |-> t] : t \in TaskIds}
      \cup {[op |-> o, arg |-> Undefined] : o \in {"clearLastTaskId"} \cup Readers}

\* The statements of an operation between getSettings_ and saveSettings_.
Modified(c, settings) ==
    CASE c.op = "saveApiKey" -> Put(settings, "apiKey", c.arg)
      [] c.op = "saveLastTaskId" -> Put(settings, "lastTaskId", c.arg)
      [] c.op = "clearLastTaskId" -> Delete(settings, "lastTaskId")
      [] OTHER -> settings

\* An operation run from its first statement to its last.
Applied(c, props) ==
    CASE c.op = "saveApiKey" -> saveApiKey(props, c.arg)
      [] c.op = "saveLastTaskId" -> saveLastTaskId(props, c.arg)
      [] c.op = "clearLastTaskId" -> clearLastTaskId(props)
      [] OTHER -> props

\* What a reader returns.
Answer(c, props) ==
    CASE c.op = "getApiKey" -> getApiKey(props)
      [] c.op = "getLastTaskId" -> getLastTaskId(props)
      [] c.op = "isConfigured" -> (IF isConfigured(props) THEN "true" ELSE "false")
      [] OTHER -> Undefined

NoSettingsCall == [op |-> "none", arg |-> Undefined]

\* An invocation: its operation, where it is, and the settings it parsed.
Resting == [c |-> NoSettingsCall, at |-> "rest", settings |-> EmptyObject]

NoInvocations ==
    [fn |-> "settings", done |-> TRUE, rounds |-> 0, base |-> EmptyObject,
     inv |-> <<Resting, Resting>>,
     last |-> [c |-> NoSettingsCall, before |-> EmptyObject, answer |-> Undefined]]

clientVarsButStore ==
    <<remote, now, pc, op, argTaskId, taskId, startTime, pollInterval, status, result,
      queries, httpCode, lastStoreOp, scenario, sheets, selection, kind, payload, outcome,
      clearCalls, written>>

InitSettings == StartIn(QuietScenario, NoInvocations)

AtRest == \A i \in 1..2 : call.inv[i].at \in {"rest", "done"}

\* One operation runs alone.
RunAlone ==
    /\ call.fn = "settings"
    /\ AtRest
    /\ \E c \in SettingsCalls :
         /\ userProps' = Applied(c, userProps)
         /\ call' = [call EXCEPT !.last = [c |-> c, before |-> userProps,
                                           answer |-> Answer(c, userProps)]]
    /\ UNCHANGED clientVarsButStore

\* Two invocations start a writing operation each.
Begin ==
    /\ call.fn = "settings"
    /\ AtRest
    /\ call.rounds < MaxRounds
    /\ \E c1, c2 \in {c \in SettingsCalls : c.op \in Writers} :
         call' = [call EXCEPT !.rounds = call.rounds + 1,
                              !.base = userProps,
                              !.inv = <<[c |-> c1, at |-> "start", settings |-> EmptyObject],
                                        [c |-> c2, at |-> "start", settings |-> EmptyObject]>>]
    /\ UNCHANGED clientVars

\* const settings = getSettings_()
ReadSettings ==
    /\ call.fn = "settings"
    /\ \E i \in 1..2 :
         /\ call.inv[i].at = "start"
         /\ call' = [call EXCEPT !.inv[i].at = "read",
                                 !.inv[i].settings = getSettings_(userProps)]
    /\ UNCHANGED clientVars

\* The change of the parsed object and saveSettings_(settings).
WriteSettings ==
    /\ call.fn = "settings"
    /\ \E i \in 1..2 :
         /\ call.inv[i].at = "read"
         /\ userProps' = saveSettings_(userProps,
                                       Modified(call.inv[i].c, call.inv[i].settings))
         /\ call' = [call EXCEPT !.inv[i].at = "done"]
    /\ UNCHANGED clientVarsButStore

NextSettings ==
    \/ RunAlone
    \/ Begin
    \/ ReadSettings
    \/ WriteSettings

SettingsSpec == InitSettings /\ [][NextSettings]_vars

(***************************************************************************)
(* Operations.gs: the two-phase operations.  runRank, runScreen and        *)
(* runDedupe create a session, run a create_group task for the selected    *)
(* records (createInputArtifact) and then the main task, each with         *)
(* runTaskWithPolling; the poll loop is the one of Submit, LoopHead and     *)
(* PollStatus.  The service hands out the input task's id first.  Every    *)
(* request takes one unit of latency, so that either phase may time out    *)
(* after a few queries.                                                    *)
(***************************************************************************)
TwoPhaseKinds == {"rank", "screen", "dedupe"}

TwoPhaseScenario ==
    [kinds |-> TwoPhaseKinds,
     tasks |-> TaskIds,
     delays |-> {DelayUnit},
     selections |-> {GoodSelection, BlankSelection},
     payloads |-> {}]

\* The id an operation of an earlier day left in the store when it timed out.
EarlierTaskId == "t0"

EarlierStores ==
    {EmptyObject}
      \cup {saveLastTaskId(saveApiKey(EmptyObject, k), EarlierTaskId) : k \in ApiKeys}

\* Where the operation is (phase), and the store as it was when it began.
TwoPhase(phase, store) ==
    [fn |-> "twoPhase", done |-> TRUE, phase |-> phase, storeAtStart |-> store]

InitTwoPhase ==
    /\ userProps \in EarlierStores
    /\ remote = [t \in TaskIds |-> "none"]
    /\ now = 0
    /\ pc = "idle"
    /\ op = "none"
    /\ argTaskId = Undefined
    /\ taskId = Undefined
    /\ startTime = 0
    /\ pollInterval = 0
    /\ status = NoBody
    /\ result = NoResult
    /\ queries = 0
    /\ httpCode = NotSent
    /\ lastStoreOp = NoStoreOp
    /\ scenario = TwoPhaseScenario
    /\ sheets = <<>>
    /\ selection = NoRange
    /\ kind = "none"
    /\ payload = NoPayload
    /\ outcome = NoResult
    /\ clearCalls = 0
    /\ written = 0
    /\ call = TwoPhase("none", userProps)

\* The responses the service may give to POST /sessions.
SessionResponses ==
    {[code |-> 200, body |-> [status |-> Undefined, artifact_id |-> Undefined,
                               error |-> Undefined, session_id |-> "session-1"]]}
      \cup {[code |-> c, body |-> NoBody] : c \in ErrorCodes}

\* The bodies the service may give to the artifacts request of a completed
\* main task.
ArtifactBodies ==
    {Artifacts(<<>>),
     Artifacts(<<NullArtifact>>),
     Artifacts(<<Artifact("table", ArrayData(<<SelectedRecord, DuplicateRecord>>))>>)}

\* getArtifacts(ids) = makeApiRequest('GET', '/artifacts?...')
getArtifacts(props, resp) == makeApiRequest(props, resp)

\* Mutant: createInputArtifact takes every returned result for a created
\* artifact.
NotCreated_Never(res) == FALSE

\* result.status !== 'completed' in createInputArtifact
NotCreated(res) == res.status # "completed"

StillRunning ==
    "Task is still running. Use \"Check Previous Task\" to check status later."

\* runRank / runScreen / runDedupe up to createSession: selectionToRecords.
RunTwoPhase ==
    /\ pc = "idle"
    /\ call.fn = "twoPhase"
    /\ Len(sheets) < MaxSheets
    /\ Cardinality({t \in TaskIds : remote[t] = "none"}) >= 2
    /\ \E k \in scenario.kinds, sel \in scenario.selections :
         LET records == selectionToRecords(sel) IN
         /\ kind' = k
         /\ selection' = sel
         /\ IF records.threw
            THEN /\ pc' = "done"
                 /\ outcome' = Throw(records.error)
            ELSE /\ pc' = "session"
                 /\ UNCHANGED outcome
    /\ op' = "run2"
    /\ call' = TwoPhase("session", userProps)
    /\ UNCHANGED <<userProps, remote, now, argTaskId, taskId, startTime, pollInterval,
                   status, result, queries, httpCode, lastStoreOp>>
    /\ UNCHANGED <<scenario, sheets, payload, clearCalls, written>>

\* createSession(name); createInputArtifact then enters runTaskWithPolling.
CreateSession ==
    /\ pc = "session"
    /\ \E resp \in SessionResponses, d \in scenario.delays :
         LET r == makeApiRequest(userProps, resp) IN
         /\ now' = now + d
         /\ httpCode' = CodeOf(r, resp)
         /\ IF r.threw
            THEN /\ result' = Throw(r.error)
                 /\ outcome' = Throw(r.error)
                 /\ pc' = "done"
                 /\ UNCHANGED call
            ELSE /\ pc' = "submit"
                 /\ call' = [call EXCEPT !.phase = "input"]
                 /\ UNCHANGED <<result, outcome>>
    /\ UNCHANGED <<userProps, remote, op, argTaskId, taskId, startTime, pollInterval,
                   status, queries, lastStoreOp>>
    /\ UNCHANGED <<scenario, sheets, selection, kind, payload, clearCalls, written>>

\* createInputArtifact after runTaskWithPolling came back: an exception
\* goes on to the caller, a result that is not 'completed' is thrown as
\* 'Failed to create input data', and otherwise the main task is built and
\* runTaskWithPolling entered again.
InputArtifact ==
    /\ pc = "done"
    /\ op = "run2"
    /\ call.phase = "input"
    /\ IF result.status = "thrown"
       THEN /\ call' = [call EXCEPT !.phase = "failed"]
            /\ UNCHANGED <<pc, result, outcome, taskId>>
       ELSE IF NotCreated(result)
       THEN /\ call' = [call EXCEPT !.phase = "failed"]
            /\ outcome' = Throw(<<"Failed to create input data: ", StillRunning>>)
            /\ UNCHANGED <<pc, result, taskId>>
       ELSE /\ call' = [call EXCEPT !.phase = "main"]
            /\ pc' = "submit"
            /\ result' = NoResult
            /\ outcome' = NoResult
            /\ taskId' = Undefined
    /\ UNCHANGED <<userProps, remote, now, op, argTaskId, startTime, pollInterval,
                   status, queries, httpCode, lastStoreOp>>
    /\ UNCHANGED <<scenario, sheets, selection, kind, payload, clearCalls, written>>

\* After the main task's runTaskWithPolling returned 'completed':
\* getArtifacts, extractArtifactData, writeResultsToSheet, and the return.
WriteArtifacts ==
    /\ pc = "done"
    /\ op = "run2"
    /\ call.phase = "main"
    /\ result.status = "completed"
    /\ outcome = NoResult
    /\ \E body \in ArtifactBodies, code \in {200} \cup ErrorCodes, d \in scenario.delays :
         LET r == getArtifacts(userProps, [code |-> code, body |-> NoBody])
             records == extractArtifactData(body)
             sheet == writeResultsToSheet(sheets, records.records, SheetNameOf(kind))
         IN
         /\ now' = now + d
         /\ httpCode' = CodeOf(r, [code |-> code])
         /\ IF r.threw
            THEN /\ outcome' = Throw(r.error)
                 /\ UNCHANGED <<sheets, written>>
            ELSE IF records.threw
            THEN /\ outcome' = Throw(<<"TypeError">>)
                 /\ UNCHANGED <<sheets, written>>
            ELSE IF sheet.threw
            THEN /\ outcome' = Throw(sheet.error)
                 /\ UNCHANGED <<sheets, written>>
            ELSE /\ sheets' = sheet.sheets
                 /\ written' = written + 1
                 /\ outcome' = Completed(Len(records.records))
    /\ UNCHANGED <<userProps, remote, pc, op, argTaskId, taskId, startTime, pollInterval,
                   status, result, queries, lastStoreOp>>
    /\ UNCHANGED <<scenario, selection, kind, payload, clearCalls, call>>

NextTwoPhase ==
    \/ SaveApiKey
    \/ RunTwoPhase
    \/ CreateSession
    \/ Submit
    \/ LoopHead
    \/ PollStatus
    \/ InputArtifact
    \/ WriteArtifacts
    \/ RemoteProgress
    \/ Finish

TwoPhaseSpec == InitTwoPhase /\ [][NextTwoPhase]_vars

(***************************************************************************)
(* Properties                                                              *)
(***************************************************************************)
Polling == op = "run" /\ pc \in {"head", "query"}

TerminalSeen == status.status \in {"completed", "failed"}

\* C1: from the entry of the poll loop until a status query returns
\* 'completed' or 'failed', the store holds the id of the polled task; this
\* holds too after the invocation was killed in the loop, after a status
\* query raised a request error, and after the loop timed out.
C1_IdPersistedWhilePolling ==
    (op = "run" /\ taskId # Undefined /\ ~TerminalSeen)
        => getLastTaskId(userProps) = taskId

\* C1 witness: a status query raised a request error after an earlier
\* non-terminal poll, and the id is still stored.
C1_Witness ==
    /\ op = "run" /\ pc = "done" /\ result.status = "thrown"
    /\ httpCode \in {0, 500} /\ queries >= 2 /\ ~TerminalSeen
    /\ getLastTaskId(userProps) = taskId /\ taskId \in TaskIds

\* C2: when the poll loop ends with outcome 'timeout' nothing was thrown,
\* the returned object carries the polled task id, and the store holds
\* exactly that id.
C2_TimeoutKeepsId ==
    (op = "run" /\ pc = "done" /\ result.status = "timeout")
        => /\ result.error = <<>>
           /\ result.taskId = taskId
           /\ taskId \in TaskIds
           /\ getLastTaskId(userProps) = taskId

C2_Witness ==
    /\ op = "run" /\ pc = "done" /\ result.status = "timeout"
    /\ getLastTaskId(userProps) = taskId /\ taskId \in TaskIds

\* C3: once a status query of the poll loop has returned 'completed', the
\* invocation is over (no further query can follow), the store is empty, and
\* the outcome is 'completed' with the polled task id and the artifact handle
\* of that status response.
C3_CompletedClearsAndReturns ==
    (op = "run" /\ status.status = "completed")
        => /\ pc = "done"
           /\ result.status = "completed"
           /\ result.error = <<>>
           /\ result.taskId = taskId
           /\ result.artifactId = status.artifact_id
           /\ getLastTaskId(userProps) = Null
           /\ lastStoreOp.kind = "clear"

C3_Witness ==
    /\ op = "run" /\ status.status = "completed" /\ pc = "done"
    /\ result.status = "completed" /\ result.artifactId = ArtifactOf(taskId)
    /\ queries >= 2 /\ getLastTaskId(userProps) = Null

\* C4: once a status query (poll loop or checkPreviousTask) has returned
\* 'failed', the invocation is over (no re-submission, no further query), a
\* failure carrying the remote error detail, or 'Unknown error' when there
\* is none, was thrown, and the store is empty.
C4_FailedClearsAndThrows ==
    (op \in {"run", "check"} /\ status.status = "failed")
        => /\ pc = "done"
           /\ result.status = "thrown"
           /\ result.error =
                <<"Task failed: ",
                  IF status.error \in {Undefined, Null, ""}
                  THEN "Unknown error" ELSE status.error>>
           /\ remote[taskId] = "failed"
           /\ getLastTaskId(userProps) = Null
           /\ lastStoreOp.kind = "clear"

C4_Witness ==
    /\ op = "run" /\ status.status = "failed" /\ status.error = "boom"
    /\ result.error = <<"Task failed: ", "boom">>
    /\ queries >= 2 /\ getLastTaskId(userProps) = Null

\* C5: a status query of the poll loop answered with any status other than
\* 'completed' and 'failed' leaves the scheduler polling: nothing is
\* returned, nothing is thrown, and the store is unchanged.
C5_NonTerminalStaysPolling ==
    [][(/\ op = "run" /\ pc = "query" /\ pc' # "query"
        /\ result'.status # "killed"
        /\ httpCode' = 200
        /\ status'.status \notin {"completed", "failed"})
          => (/\ pc' = "head"
              /\ result' = NoResult
              /\ taskId' = taskId
              /\ userProps' = userProps
              /\ lastStoreOp' = lastStoreOp)]_vars

\* C5 witness: polling goes on after the answers 'paused' (an unknown
\* status) and more.
C5_Witness ==
    /\ Polling /\ pc = "head" /\ queries >= 3
    /\ status.status = "paused" /\ getLastTaskId(userProps) = taskId

\* C6: the interval slept before the n-th status query is 2000, 3000, 4500,
\* 6750, 10000, 10000, ...: it never decreases, never exceeds
\* MAX_POLL_INTERVAL_MS, and stays at the ceiling once there.
C6_BackoffSchedule ==
    Polling =>
        /\ pollInterval = (CASE queries = 0 -> 2000
                             [] queries = 1 -> 3000
                             [] queries = 2 -> 4500
                             [] queries = 3 -> 6750
                             [] OTHER -> 10000)
        /\ pollInterval <= MAX_POLL_INTERVAL_MS

C6_Witness == Polling /\ pc = "query" /\ queries >= 6 /\ pollInterval = 10000

\* C10: the store is one last-writer-wins slot: getLastTaskId() is the
\* argument of the most recent saveLastTaskId if no clearLastTaskId followed
\* it, and null otherwise.
C10_LastWriterWins ==
    getLastTaskId(userProps) =
        IF lastStoreOp.kind = "save" THEN lastStoreOp.id ELSE Null

\* C10 witness: a second operation was started while the first task was
\* still pending: the slot holds the second id only.
C10_Witness ==
    /\ lastStoreOp = [kind |-> "save", id |-> TaskIdSeq[2]]
    /\ remote[TaskIdSeq[1]] = "live"
    /\ getLastTaskId(userProps) = TaskIdSeq[2]

\* C7: the scheduler never polls forever: every invocation that entered the
\* poll loop ends Completed, Failed, TimedOut or with a propagated request
\* error, even if the remote task stays non-terminal for ever.
C7_PollLoopTerminates ==
    Polling ~> (pc = "done" /\ result.status \in {"completed", "thrown", "timeout"})

\* C7 witness: the loop ran its whole budget against a task that is still
\* live, and ended.
C7_Witness ==
    /\ op = "run" /\ pc = "done" /\ result.status = "timeout"
    /\ remote[taskId] = "live" /\ queries >= 20

Elapsed == now - startTime

\* C8, as claimed: TimedOut is never the outcome while elapsed < budget, and
\* once elapsed >= budget with no terminal status observed so far, the
\* outcome of the invocation is TimedOut (request errors set aside).
C8_Original ==
    [][/\ (result'.status = "timeout" /\ result.status # "timeout")
            => now' - startTime' >= MAX_POLL_TIME_MS
       /\ (/\ op = "run" /\ pc \in {"head", "query"} /\ ~TerminalSeen
           /\ Elapsed >= MAX_POLL_TIME_MS
           /\ pc' = "done" /\ result'.status # "killed" /\ httpCode' = 200)
            => result'.status = "timeout"]_vars

\* C8, amended: the budget is checked at the head of an iteration only.
\* TimedOut is the outcome exactly when that check finds elapsed >= budget;
\* when it finds elapsed < budget the loop sleeps and queries once more,
\* whatever the clock says after the sleep.
C8_TimeoutAtLoopHead ==
    [][/\ (result'.status = "timeout" /\ result.status # "timeout")
            => (pc = "head" /\ Elapsed >= MAX_POLL_TIME_MS)
       /\ (op = "run" /\ pc = "head" /\ pc' # "head" /\ result'.status # "killed")
            => IF Elapsed >= MAX_POLL_TIME_MS
               THEN pc' = "done" /\ result'.status = "timeout" /\ now' = now
               ELSE pc' = "query" /\ result' = NoResult
                      /\ now' = now + pollInterval]_vars

C8_Witness ==
    /\ op = "run" /\ pc = "done" /\ result.status = "timeout"
    /\ Elapsed >= MAX_POLL_TIME_MS /\ queries >= 10

\* C9, as claimed: the resume entry point re-enters the poll loop, so when
\* its status queries are answered it ends Completed, Failed or TimedOut.
C9_Original ==
    (op = "check" /\ pc = "done" /\ httpCode = 200)
        => \/ result.status \in {"completed", "timeout"}
           \/ result.status = "thrown" /\ status.status = "failed"

\* C9, amended: checkPreviousTask, for the explicit id or else the stored
\* one, issues one status query without sleeping and ends at once: Completed
\* or Failed (store cleared) when the answer is terminal, and otherwise
\* 'running' with the store unchanged; it never yields 'timeout'.
C9_ResumeIsSingleQuery ==
    [][(pc = "idle" /\ op' = "check")
         => /\ pc' = "done"
            /\ queries' <= 1
            /\ now' - now \in Delays
            /\ result'.status \in {"completed", "running", "thrown"}
            /\ taskId' = (IF argTaskId' \in TaskIds THEN argTaskId'
                          ELSE getLastTaskId(userProps))
            /\ httpCode' = 200 =>
                 /\ queries' = 1
                 /\ CASE status'.status = "completed" ->
                           /\ result'.status = "completed"
                           /\ result'.taskId = taskId'
                           /\ result'.artifactId = status'.artifact_id
                           /\ getLastTaskId(userProps') = Null
                      [] status'.status = "failed" ->
                           /\ result'.status = "thrown"
                           /\ getLastTaskId(userProps') = Null
                      [] OTHER ->
                           /\ result'.status = "running"
                           /\ result'.taskId = taskId'
                           /\ userProps' = userProps]_vars

\* C9 witness: resuming the stored id of a task that is still live answers
\* 'running' and keeps the id.
C9_Witness ==
    /\ op = "check" /\ pc = "done" /\ argTaskId = Undefined
    /\ result.status = "running" /\ result.taskId = taskId
    /\ remote[taskId] = "live" /\ getLastTaskId(userProps) = taskId

\* C11, as claimed: when direct polling, or Check Previous Task with the
\* retrieveTaskResults that may follow it, is over, clearLastTaskId was called
\* once if the task was observed completed or failed, and not at all
\* otherwise.
C11_Original ==
    (op \in {"run", "check"} /\ pc = "done" /\ outcome # NoResult)
        => clearCalls = (IF TerminalSeen THEN 1 ELSE 0)

\* C11, amended: an invocation calls clearLastTaskId only after it observed
\* its task completed or failed.  The poll loop and checkPreviousTask call it
\* once on such an observation; retrieveTaskResults calls it once after it
\* wrote the sheet and not otherwise, so Check Previous Task followed by
\* retrieveTaskResults calls it twice for the one task, and
\* retrieveTaskResults on its own not at all for a failed task or for a
\* completed one whose results it could not write.
C11_ClearCallsPerPath ==
    /\ clearCalls > 0 => TerminalSeen
    /\ clearCalls =
         (IF op \in {"run", "check"} /\ TerminalSeen THEN 1 ELSE 0)
           + (IF op \in {"check", "retrieve"} THEN written ELSE 0)
    /\ (op \in {"check", "retrieve"} /\ written > 0) => status.status = "completed"

\* C11 witness: Check Previous Task found the task completed, the user had
\* the results written, and clearLastTaskId ran twice.
C11_Witness ==
    /\ op = "check" /\ pc = "done" /\ outcome.status = "completed"
    /\ written = 1 /\ clearCalls = 2 /\ status.status = "completed"

\* C12: no checkPreviousTask(T1) or retrieveTaskResults(T1) with an explicit
\* id T1 empties the slot while it holds the id T2 # T1 of a task that is
\* still running.
C12_OnlyOwnIdCleared ==
    [][~(/\ argTaskId' \in TaskIds
         /\ getLastTaskId(userProps) \in TaskIds \ {argTaskId'}
         /\ remote[getLastTaskId(userProps)] = "live"
         /\ getLastTaskId(userProps') = Null)]_vars

\* C13: in every operation kind a result sheet is written only after the
\* poll loop returned 'completed' for the submitted task, whose request
\* followed the conversion of the selection, and after the result was
\* fetched; nothing is fetched or written while the loop runs; on 'timeout'
\* the operation returns status 'timeout' with the task id and has written
\* nothing; on 'failed' the task failure propagates and nothing was written.
C13_WriteOnlyAfterCompleted ==
    op = "run" =>
        /\ (taskId # Undefined /\ kind # "merge") => ~selectionToRecords(selection).threw
        /\ pc \in {"submit", "head", "query"} => (written = 0 /\ payload = NoPayload)
        /\ payload.tag # "undefined" => (result.status = "completed" /\ pc = "done")
        /\ written > 0 =>
              /\ written = 1
              /\ result.status = "completed" /\ result.taskId = taskId
              /\ status.status = "completed" /\ remote[taskId] = "completed"
              /\ payload.tag # "undefined"
              /\ outcome.status = "completed"
              /\ sheets[Len(sheets)].rows = ResultRecords(kind, payload)
        /\ outcome.status = "timeout" =>
              /\ outcome.taskId = taskId /\ taskId \in TaskIds
              /\ outcome.error = <<>>
              /\ written = 0 /\ payload = NoPayload
        /\ status.status = "failed" =>
              /\ outcome.status = "thrown"
              /\ outcome.error[1] = "Task failed: "
              /\ written = 0 /\ payload = NoPayload

\* C13 witness: a merge was polled more than once, completed, and its
\* results were written.
C13_Witness ==
    /\ op = "run" /\ kind = "merge" /\ pc = "done" /\ queries >= 2
    /\ outcome.status = "completed" /\ written = 1
    /\ sheets[Len(sheets)].name = <<"Merge Results">>

\* A step in which the client sends, or means to send, a request.
RequestStep ==
    \/ pc = "submit" /\ pc' # "submit" /\ outcome'.status # "killed"
    \/ pc = "query" /\ pc' # "query" /\ outcome'.status # "killed"
    \/ pc = "idle" /\ op' \in {"check", "retrieve"} /\ taskId' \in TaskIds
    \/ pc = "done" /\ pc' = "done" /\ outcome = NoResult /\ outcome' # NoResult

\* C14: with no API key stored, every step that means to send a request
\* ends the invocation with the configuration error, nothing having been
\* sent, and leaves the stored settings and the remote service as they were.
C14_NoKeyNoRequest ==
    [][(RequestStep /\ ~Truthy(getApiKey(userProps)))
         => /\ pc' = "done"
            /\ outcome' =
                 Throw(<<"API key not configured. Please set your API key in Settings.">>)
            /\ httpCode' = NotSent
            /\ userProps' = userProps
            /\ remote' = remote
            /\ sheets' = sheets]_vars

\* C14 witness: an operation was started without a key; it ended with the
\* configuration error before anything was sent.
C14_Witness ==
    /\ op = "run" /\ pc = "done" /\ getApiKey(userProps) = Null
    /\ ~selectionToRecords(selection).threw
    /\ outcome.error = <<"API key not configured. Please set your API key in Settings.">>
    /\ httpCode = NotSent /\ remote = [t \in TaskIds |-> "none"]

ValidationErrors ==
    {<<"No cells selected. Please select the data you want to process.">>,
     <<"Selection must have at least 2 rows (1 header row + 1 data row).">>,
     <<"No columns with data found. Please select cells with data.">>,
     <<"Duplicate header names found. Please ensure all headers are unique.">>,
     <<"No data rows found. Please select cells with data.">>}

EmptyResult ==
    /\ payload.tag # "undefined"
    /\ Len(IF op = "run" THEN ResultRecords(kind, payload) ELSE extractResultData(payload)) = 0

EmptyResultErrors ==
    {<<"No results to write.">>, <<"Task completed but no results found.">>}

\* C17, as claimed: when the normalization of a completed task's result is
\* empty the operation does not fail (nothing is thrown), and no sheet is
\* created.
C17_Original ==
    EmptyResult => (outcome.status # "thrown" /\ written = 0)

\* C17, amended: when the normalization of a completed task's result is
\* empty the operation fails: it throws an Error, 'No results to write.' in
\* the run* operations and 'Task completed but no results found.' in
\* retrieveTaskResults, and creates no sheet.  These two messages are thrown
\* in no other case, so the empty result can be told from a task failure
\* and from a request error by the message alone.
C17_EmptyResultThrows ==
    /\ EmptyResult =>
          /\ outcome.status = "thrown"
          /\ outcome.error = (IF op = "run"
                              THEN <<"No results to write.">>
                              ELSE <<"Task completed but no results found.">>)
          /\ written = 0
    /\ (outcome.status = "thrown" /\ outcome.error \in EmptyResultErrors) => EmptyResult

\* C17 witness: a rank completed with an empty list; the operation threw and
\* the spreadsheet has no result sheet.
C17_Witness ==
    /\ op = "run" /\ kind = "rank" /\ pc = "done"
    /\ status.status = "completed" /\ payload = TaskResult(ArrayData(<<>>))
    /\ outcome = Throw(<<"No results to write.">>)
    /\ written = 0 /\ sheets = <<>>

\* C20: the records the dedupe operation writes are the normalized records
\* whose selected is true, in order, each without the keys selected,
\* equivalence_class_id and equivalence_class_name.
C20_DedupeWritesSelectedOnly ==
    (op = "run" /\ kind = "dedupe" /\ written = 1)
        => sheets[Len(sheets)].rows = extractDedupeResults(payload)

\* C16: a makeApiRequest call with a key stored performs exactly one fetch
\* (none without a key); status 401 raises the invalid-key error and 403 the
\* access-denied error; any other status >= 400 raises an error whose
\* message is the response's detail (its JSON text when it is not a string),
\* else its message, else 'API error: <status>', or for a body that is not
\* JSON 'API error <status>: <body>'; the parsed body is returned only for a
\* status below 400.
C16_RequestErrorMapping ==
    (call.fn = "makeApiRequest" /\ call.done) =>
        LET resp == call.arg.resp
            text == resp.text
            r == call.ret
        IN
        IF getApiKey(call.arg.props) = Null
        THEN r.threw /\ r.fetches = 0
        ELSE /\ r.fetches = 1
             /\ resp.code = 401 =>
                  /\ r.threw
                  /\ r.error = <<"Invalid API key. Please insert valid API key below.">>
             /\ resp.code = 403 =>
                  /\ r.threw
                  /\ r.error = <<"Access denied. Your API key may not have permission for this operation.">>
             /\ (resp.code >= 400 /\ resp.code \notin {401, 403}) =>
                  /\ r.threw
                  /\ r.error =
                       (IF ~text.json
                        THEN <<"API error ", ToString(resp.code), ": ", text.raw>>
                        ELSE IF text.detail = DetailObject
                        THEN <<DetailObjectJson>>
                        ELSE IF text.detail \notin {Undefined, ""}
                        THEN <<text.detail>>
                        ELSE IF text.message \notin {Undefined, ""}
                        THEN <<text.message>>
                        ELSE <<"API error: ", ToString(resp.code)>>)
             /\ ~r.threw => (resp.code \in 1..399 /\ text.json /\ r.body = resp.body)
             /\ (resp.code \in 1..399 /\ text.json) => ~r.threw

\* C16 witness: a 401 answer to a request with a key: one fetch, the
\* invalid-key error.
C16_Witness ==
    /\ call.fn = "makeApiRequest" /\ call.done
    /\ getApiKey(call.arg.props) \in ApiKeys
    /\ call.arg.resp.code = 401
    /\ call.ret.threw /\ call.ret.fetches = 1
    /\ call.ret.error = <<"Invalid API key. Please insert valid API key below.">>

\* The first artifact is a group with children, none of them null.
GroupedInput ==
    /\ call.arg.tag = "array" /\ Len(call.arg.value) > 0
    /\ call.arg.value[1].tag = "object"
    /\ call.arg.value[1].type = "group"
    /\ call.arg.value[1].hasArtifacts
    /\ Len(call.arg.value[1].artifacts) > 0
    /\ \A i \in 1..Len(call.arg.value[1].artifacts) :
          call.arg.value[1].artifacts[i].tag = "object"

\* The first artifact is an object that is not a group with children.
StandaloneInput ==
    /\ call.arg.tag = "array" /\ Len(call.arg.value) > 0
    /\ call.arg.value[1].tag = "object"
    /\ ~(/\ call.arg.value[1].type = "group"
         /\ call.arg.value[1].hasArtifacts
         /\ Len(call.arg.value[1].artifacts) > 0)

\* C18: the normalizers map each shape to a flat record sequence: a group's
\* children that carry a record yield those records in child order, the
\* others being skipped; a list is returned as it is; a single record yields
\* the one-element sequence holding it.
C18_NormalizerShapes ==
    /\ (call.fn = "extractArtifactData" /\ call.done /\ GroupedInput) =>
          LET carrying == SelectSeq(call.arg.value[1].artifacts,
                                    LAMBDA c : c.data.tag = "object")
          IN /\ ~call.ret.threw
             /\ Len(call.ret.records) = Len(carrying)
             /\ \A i \in 1..Len(carrying) : call.ret.records[i] = carrying[i].data.value
    /\ (call.fn = "extractArtifactData" /\ call.done /\ StandaloneInput) =>
          /\ call.arg.value[1].data.tag = "array" =>
                (~call.ret.threw /\ call.ret.records = call.arg.value[1].data.value)
          /\ call.arg.value[1].data.tag = "object" =>
                (~call.ret.threw /\ call.ret.records = <<call.arg.value[1].data.value>>)
    /\ (call.fn = "extractResultData" /\ call.done /\ call.arg.tag = "object") =>
          /\ call.arg.data.tag = "array" => call.ret = call.arg.data.value
          /\ call.arg.data.tag = "object" => call.ret = <<call.arg.data.value>>

\* C18 witness: a group of two children, each with a record: the two
\* records in child order.
C18_Witness ==
    /\ call.fn = "extractArtifactData" /\ call.done /\ GroupedInput
    /\ Len(call.arg.value[1].artifacts) = 2
    /\ call.ret.records = <<DuplicateRecord, SelectedRecord>>

\* C19: the normalizers never throw, and return the empty sequence for a
\* null or undefined payload, an empty artifact array, a null first
\* artifact, a payload without data, and a group whose artifacts list is
\* empty or holds a null child.
C19_NormalizerNeverThrows ==
    /\ (call.fn = "extractArtifactData" /\ call.done) =>
          /\ ~call.ret.threw
          /\ (call.arg.tag # "array" \/ Len(call.arg.value) = 0) => call.ret.records = <<>>
          /\ (StandaloneInput /\ ~TruthyData(call.arg.value[1].data)) => call.ret.records = <<>>
    /\ (call.fn = "extractResultData" /\ call.done
          /\ (call.arg.tag # "object" \/ ~TruthyData(call.arg.data))) => call.ret = <<>>

\* The screened call is done: its input records and its output.
Screened == call.fn = "extractScreenResults" /\ call.done

\* Everything of record apart from research and reason is in the formatted
\* record as it was.
OtherKeysKept(record, formatted) ==
    /\ K_research \notin DOMAIN formatted
    /\ DOMAIN formatted \ {K_reason} = DOMAIN record \ {K_research, K_reason}
    /\ \A key \in DOMAIN record \ {K_research, K_reason} : formatted[key] = record[key]

\* The reason of record is in the formatted record as it was, or missing as it was.
ReasonLeft(record, formatted) ==
    /\ K_reason \in DOMAIN formatted <=> K_reason \in DOMAIN record
    /\ K_reason \in DOMAIN record => formatted[K_reason] = record[K_reason]

\* record.research is an object with a screening_result member.
NestedPresent(record) ==
    /\ K_research \in DOMAIN record
    /\ record[K_research].t = "object"
    /\ K_screening_result \in DOMAIN record[K_research].o

\* C21 as stated: screen post-processing gives one record per record, in
\* order, without the key research and with every other key kept; reason is
\* research.screening_result whenever that value is present, and is left as
\* it was when it is absent.
C21_Original ==
    Screened =>
        LET records == call.arg.data.value IN
        /\ Len(call.ret) = Len(records)
        /\ \A i \in 1..Len(records) :
              /\ OtherKeysKept(records[i], call.ret[i])
              /\ IF NestedPresent(records[i])
                 THEN /\ K_reason \in DOMAIN call.ret[i]
                      /\ call.ret[i][K_reason] = records[i][K_research].o[K_screening_result]
                 ELSE ReasonLeft(records[i], call.ret[i])

\* C21 amended: as above, but reason is research.screening_result only when
\* research and that value are both truthy; for a missing, null, empty,
\* zero or false value the reason is left as it was.
C21_ScreenPromotesTruthyReason ==
    Screened =>
        LET records == call.arg.data.value IN
        /\ Len(call.ret) = Len(records)
        /\ \A i \in 1..Len(records) :
              /\ OtherKeysKept(records[i], call.ret[i])
              /\ IF NestedPresent(records[i])
                    /\ TruthyJs(records[i][K_research].o[K_screening_result])
                 THEN /\ K_reason \in DOMAIN call.ret[i]
                      /\ call.ret[i][K_reason] = records[i][K_research].o[K_screening_result]
                 ELSE ReasonLeft(records[i], call.ret[i])

\* C21 witness: a record with an old reason and a screening result gets the
\* screening result as its reason, next to one whose empty screening result
\* leaves the old reason.
C21_Witness ==
    /\ Screened
    /\ Len(call.ret) = 2
    /\ call.arg.data.value[1] =
         ScreenRecord(JsString(S_Old), JsObject([k \in {K_screening_result} |-> JsString(S_B)]))
    /\ call.ret[1] = [key \in {S_Name, K_reason} |->
                         IF key = S_Name THEN JsString(S_A) ELSE JsString(S_B)]
    /\ call.arg.data.value[2] =
         ScreenRecord(JsString(S_Old), JsObject([k \in {K_screening_result} |-> JsString(<<>>)]))
    /\ call.ret[2][K_reason] = JsString(S_Old)

\* A forward conversion of a selection with a header row and data rows is
\* done.
Converting ==
    /\ call.fn = "selectionToRecords" /\ call.done
    /\ call.arg.range /\ Len(call.arg.values) >= 2

\* Empty as the specification defines it: null, undefined, or a string that
\* is empty once trimmed.
Blank(val) == val.t \in {"null", "undefined"} \/ (val.t = "string" /\ Trim(val.v) = <<>>)

\* Column j has a cell that is not Blank in a data row.
HasData(values, j) == \E i \in 2..Len(values) : ~Blank(values[i][j])

\* Data row i has a cell that is not Blank in a column that HasData.
RowHasData(values, i) ==
    \E j \in 1..Len(values[1]) : HasData(values, j) /\ ~Blank(values[i][j])

\* The header a column resolves to.
HeaderOf(values, j) ==
    IF rawHeaders(values)[j] # <<>>
    THEN rawHeaders(values)[j]
    ELSE ColumnPrefix \o columnToLetter_(j - 1)

\* C22: in forward conversion a column is valid iff a data row has a cell in
\* it that is not null, undefined or a string that trims to the empty
\* string (numeric zero counts as a value), and the keys of every record
\* are the headers of the valid columns.
C22_ValidColumnsHaveData ==
    Converting =>
        LET values == call.arg.values
            valid == validColumnIndices(values)
        IN
        /\ \A j \in 1..Len(values[1]) :
              (\E k \in 1..Len(valid) : valid[k] = j) <=> HasData(values, j)
        /\ ~call.ret.threw =>
              \A n \in 1..Len(call.ret.records) :
                 DOMAIN call.ret.records[n] =
                    {HeaderOf(values, j) : j \in {c \in 1..Len(values[1]) : HasData(values, c)}}

DuplicateHeaderError ==
    <<"Duplicate header names found. Please ensure all headers are unique.">>

\* C23: forward conversion fails with the duplicate-header error exactly
\* when two valid columns, wherever they are, resolve to the same header
\* after trimming (a placeholder included); headers that differ in case,
\* and a header repeated in a column without data, do not raise it.
C23_DuplicateHeadersRejected ==
    Converting =>
        LET values == call.arg.values IN
        (call.ret.threw /\ call.ret.error = DuplicateHeaderError)
          <=> \E j1, j2 \in 1..Len(values[1]) :
                 /\ j1 # j2
                 /\ HasData(values, j1) /\ HasData(values, j2)
                 /\ HeaderOf(values, j1) = HeaderOf(values, j2)

\* The zero-based index that a word over A..Z stands for in bijective base
\* 26 (A = 0, Z = 25, AA = 26).
RECURSIVE letterToColumn(_)
letterToColumn(letter) ==
    IF letter = <<>>
    THEN -1
    ELSE 26 * (letterToColumn(SubSeq(letter, 1, Len(letter) - 1)) + 1)
           + (CHOOSE d \in 1..26 : Letters[d] = letter[Len(letter)]) - 1

\* C24: columnToLetter_ ends for every index from 0 and gives the word of the
\* index in bijective base 26 over A..Z, from which the index is read back
\* (so no two indices share a word): 0 -> A, 25 -> Z, 26 -> AA, 51 -> AZ,
\* 52 -> BA, 701 -> ZZ, 702 -> AAA; and in a conversion that succeeds a valid
\* column with a blank trimmed header has the key 'Column ' + L(j) for its
\* zero-based index j in the selection, under which each record holds that
\* column's cell.
C24_PlaceholderLetters ==
    /\ (call.fn = "columnToLetter_" /\ call.done) =>
          /\ call.ret # <<>>
          /\ \A i \in 1..Len(call.ret) : \E d \in 1..26 : Letters[d] = call.ret[i]
          /\ letterToColumn(call.ret) = call.arg.index
          /\ call.arg.index = 0 => call.ret = <<"A">>
          /\ call.arg.index = 25 => call.ret = <<"Z">>
          /\ call.arg.index = 26 => call.ret = <<"A", "A">>
          /\ call.arg.index = 51 => call.ret = <<"A", "Z">>
          /\ call.arg.index = 52 => call.ret = <<"B", "A">>
          /\ call.arg.index = 701 => call.ret = <<"Z", "Z">>
          /\ call.arg.index = 702 => call.ret = <<"A", "A", "A">>
    /\ (Converting /\ ~call.ret.threw) =>
          LET values == call.arg.values
              valid == validColumnIndices(values)
          IN \A k \in 1..Len(valid) :
                rawHeaders(values)[valid[k]] = <<>> =>
                   LET placeholder == ColumnPrefix \o <<Letters[valid[k]]>> IN
                   \A n \in 1..Len(call.ret.records) :
                      /\ placeholder \in DOMAIN call.ret.records[n]
                      /\ \E i \in 2..Len(values) :
                            call.ret.records[n][placeholder] = values[i][valid[k]]

\* C24 witness: the second column of a selection has a blank header and
\* data, the first has no data: the records have the key 'Column B' alone.
C24_Witness ==
    /\ Converting /\ ~call.ret.threw
    /\ Len(call.arg.values[1]) = 2
    /\ validColumnIndices(call.arg.values) = <<2>>
    /\ rawHeaders(call.arg.values)[2] = <<>>
    /\ DOMAIN call.ret.records[1] = {ColumnPrefix \o S_B}

\* The data rows that have a cell that is not Blank in a column that HasData,
\* in row order.
RowsWithData(values) ==
    SelectSeq([i \in 1..(Len(values) - 1) |-> i + 1], LAMBDA i : RowHasData(values, i))

\* C25: a forward conversion that succeeds emits, in row order, one record
\* for each data row with a non-empty cell in a valid column and none for
\* the other rows; every record has the headers of the valid columns as its
\* keys and holds under each the raw cell of its row in that column.
C25_OneRecordPerDataRow ==
    (Converting /\ ~call.ret.threw) =>
        LET values == call.arg.values
            rows == RowsWithData(values)
            columns == {j \in 1..Len(values[1]) : HasData(values, j)}
        IN
        /\ Len(call.ret.records) = Len(rows)
        /\ \A n \in 1..Len(rows) :
              /\ DOMAIN call.ret.records[n] = {HeaderOf(values, j) : j \in columns}
              /\ \A j \in columns :
                    call.ret.records[n][HeaderOf(values, j)] = values[rows[n]][j]

\* C26: forward conversion of a selection of fewer than two rows fails with
\* the two-rows error before anything else is looked at; otherwise it fails
\* with the empty-selection error when no column is valid, and with the
\* no-data error when columns are valid, their headers differ and no data
\* row is left; no failure returns records.
C26_EmptySelectionsRejected ==
    (call.fn = "selectionToRecords" /\ call.done /\ call.arg.range) =>
        LET values == call.arg.values
            columns == {j \in 1..Len(values[1]) : HasData(values, j)}
        IN
        /\ Len(values) < 2 =>
              /\ call.ret.threw
              /\ call.ret.error =
                   <<"Selection must have at least 2 rows (1 header row + 1 data row).">>
        /\ (Len(values) >= 2 /\ columns = {}) =>
              /\ call.ret.threw
              /\ call.ret.error =
                   <<"No columns with data found. Please select cells with data.">>
        /\ (/\ Len(values) >= 2
            /\ columns # {}
            /\ \A j1, j2 \in columns : HeaderOf(values, j1) = HeaderOf(values, j2) => j1 = j2
            /\ RowsWithData(values) = <<>>) =>
              /\ call.ret.threw
              /\ call.ret.error = <<"No data rows found. Please select cells with data.">>
        /\ call.ret.threw => call.ret.records = <<>>

\* C27: a forward conversion that succeeds returns at least one record, each
\* with at least one key and at least one non-empty value, and each key has
\* a non-empty value in some record; the no-data failure never occurs.
C27_ConvertedDataNotEmpty ==
    Converting =>
        /\ call.ret.error # <<"No data rows found. Please select cells with data.">>
        /\ ~call.ret.threw =>
              /\ Len(call.ret.records) >= 1
              /\ \A n \in 1..Len(call.ret.records) :
                    /\ DOMAIN call.ret.records[n] # {}
                    /\ \E key \in DOMAIN call.ret.records[n] :
                          ~Blank(call.ret.records[n][key])
              /\ \A key \in DOMAIN call.ret.records[1] :
                    \E n \in 1..Len(call.ret.records) : ~Blank(call.ret.records[n][key])

\* The keys of the records one after another.
RECURSIVE AllKeys(_)
AllKeys(objects) ==
    IF objects = <<>> THEN <<>> ELSE Head(objects).keys \o AllKeys(Tail(objects))

\* Where key is first seen in a sequence of keys that holds it.
FirstSeen(keys, key) ==
    CHOOSE i \in 1..Len(keys) : keys[i] = key /\ \A c \in 1..(i - 1) : keys[c] # key

\* C28: the data array of the inverse conversion starts with the header row,
\* which holds each key of the records once, in the order in which the keys
\* are first seen over the record sequence; then comes one row per record,
\* in order and as long as the header row, holding under each header the
\* record's value, the empty string when the record lacks the key, and the
\* JSON text when the value is an object; two records with the keys Name,
\* Emp, score give the header Name, Emp, score and two data rows.
C28_InverseConversion ==
    (call.fn = "resultData" /\ call.done) =>
        LET objects == call.arg.objects
            seen == AllKeys(objects)
            header == call.ret[1]
        IN
        /\ Len(call.ret) = Len(objects) + 1
        /\ {header[c].v : c \in 1..Len(header)} = {seen[i] : i \in 1..Len(seen)}
        /\ \A c \in 1..Len(header) : header[c].t = "string"
        /\ \A c1, c2 \in 1..Len(header) :
              c1 < c2 => FirstSeen(seen, header[c1].v) < FirstSeen(seen, header[c2].v)
        /\ \A n \in 1..Len(objects) :
              /\ Len(call.ret[n + 1]) = Len(header)
              /\ \A c \in 1..Len(header) :
                    LET key == header[c].v
                        cell == call.ret[n + 1][c]
                    IN
                    IF key \notin DOMAIN objects[n].at
                    THEN cell = JsString(<<>>)
                    ELSE IF key = K_research
                    THEN cell = JsString(<<"{", "\"">> \o K_screening_result
                                           \o <<"\"", ":", "\"", "B", "\"", "}">>)
                    ELSE cell = objects[n].at[key]
        /\ (\A n \in 1..Len(objects) : objects[n].keys = <<S_Name, S_Emp, S_score>>) =>
              /\ header = <<JsString(S_Name), JsString(S_Emp), JsString(S_score)>>
              /\ Len(call.ret) = Len(objects) + 1

\* C28 witness: {score, Name, research} and then {Name, Emp, score} give the
\* header score, Name, research, Emp, and the second row has the empty
\* string under research.
C28_Witness ==
    /\ call.fn = "resultData" /\ call.done
    /\ Len(call.arg.objects) = 2
    /\ call.arg.objects[1].keys = <<S_score, S_Name, K_research>>
    /\ call.arg.objects[2].keys = <<S_Name, S_Emp, S_score>>
    /\ call.ret[1] = <<JsString(S_score), JsString(S_Name), JsString(K_research),
                       JsString(S_Emp)>>
    /\ call.ret[3][3] = JsString(<<>>)
    /\ call.ret[2][3].t = "string"

\* The selection of a conversion that was written back has a header row
\* without a blank or a repeated header.
WellFormed(values) ==
    /\ \A j \in 1..Len(values[1]) : rawHeaders(values)[j] # <<>>
    /\ \A j1, j2 \in 1..Len(values[1]) :
          rawHeaders(values)[j1] = rawHeaders(values)[j2] => j1 = j2

\* C29: for a selection with a header row without blank or repeated headers
\* and with data rows of scalars, forward and then inverse conversion give
\* the headers of the selection's valid columns, in column order, over its
\* non-empty rows cut to these columns, in row order; and the forward
\* conversion of that data array gives the same records again.
C29_RoundTrip ==
    (call.fn = "writeBack" /\ WellFormed(call.arg.values)) =>
        LET values == call.arg.values
            columns == SelectSeq([j \in 1..Len(values[1]) |-> j],
                                 LAMBDA j : HasData(values, j))
            rows == RowsWithData(values)
        IN
        /\ Len(call.ret.data) = Len(rows) + 1
        /\ Len(call.ret.data[1]) = Len(columns)
        /\ \A c \in 1..Len(columns) :
              call.ret.data[1][c] = JsString(rawHeaders(values)[columns[c]])
        /\ \A n \in 1..Len(rows) : \A c \in 1..Len(columns) :
              call.ret.data[n + 1][c] = values[rows[n]][columns[c]]
        /\ ~call.ret.again.threw
        /\ call.ret.again.records = call.ret.records

\* The requested name with the counter k appended.
Suffixed(k) == S_Results \o <<" (", ToString(k), ")">>

\* C30: writeResultsToSheet adds one sheet after the sheets that exist and
\* leaves those as they are; the new sheet's name is none of theirs: it is
\* the requested name when that is free, and otherwise the requested name
\* with ' (k)' for the least k from 1 that gives a free name, found after at
\* most as many steps as there are sheets; a call that fails adds no sheet.
C30_SheetNameIsFree ==
    (call.fn = "writeResultsToSheet" /\ call.done) =>
        LET ss == call.arg.ss
            names == {ss[i].name : i \in 1..Len(ss)}
        IN
        IF call.ret.threw
        THEN call.ret.sheets = ss
        ELSE /\ Len(call.ret.sheets) = Len(ss) + 1
             /\ SubSeq(call.ret.sheets, 1, Len(ss)) = ss
             /\ call.ret.sheets[Len(ss) + 1].name \notin names
             /\ IF S_Results \notin names
                THEN call.ret.sheets[Len(ss) + 1].name = S_Results
                ELSE \E k \in 1..(Len(ss) + 1) :
                        /\ call.ret.sheets[Len(ss) + 1].name = Suffixed(k)
                        /\ \A smaller \in 1..(k - 1) : Suffixed(smaller) \in names

\* C30 witness: 'Results' and 'Results (1)' exist, 'Results (2)' does not:
\* the new sheet is 'Results (2)'.
C30_Witness ==
    /\ call.fn = "writeResultsToSheet" /\ call.done /\ ~call.ret.threw
    /\ SheetNamed(call.arg.ss, S_Results)
    /\ SheetNamed(call.arg.ss, Suffixed(1))
    /\ ~SheetNamed(call.arg.ss, Suffixed(2))
    /\ call.ret.sheets[Len(call.ret.sheets)].name = Suffixed(2)

\* C31: the inverse conversion of an empty record sequence fails with the
\* empty-result error before anything is created: the spreadsheet holds the
\* sheets it held and no sheet is made the active one.
C31_EmptyResultWritesNothing ==
    (call.fn = "writeResultsToSheet" /\ call.done /\ call.arg.records = <<>>) =>
        /\ call.ret.threw
        /\ call.ret.error = <<"No results to write.">>
        /\ call.ret.sheets = call.arg.ss
        /\ call.ret.activated = <<>>

\* C31 witness: an empty record sequence was turned away while the
\* spreadsheet held 'Results', which a sheet of that request would have had
\* to get around.
C31_Witness ==
    /\ call.fn = "writeResultsToSheet" /\ call.done /\ call.arg.records = <<>>
    /\ call.ret.threw
    /\ SheetNamed(call.arg.ss, S_Results)
    /\ call.ret.sheets = call.arg.ss

\* C32: when a task was seen completed and its results did not get onto a
\* sheet (the result request, the normalizer or the write raised), the store
\* still holds the task's id, so that the results can be fetched later.
C32_CompletedResultsKeepId ==
    (/\ pc = "done"
     /\ op \in {"run", "check"}
     /\ result.status = "completed"
     /\ outcome.status = "thrown"
     /\ written = 0) => getLastTaskId(userProps) = result.taskId

\* Both invocations of a round have written.
BothDone == call.fn = "settings" /\ \A i \in 1..2 : call.inv[i].at = "done"

\* C33: when the getSettings_ / saveSettings_ steps of two invocations
\* interleave, the settings they leave are those of the two operations run
\* one after the other in one of the two orders: no update of apiKey or
\* lastTaskId is lost or comes back.
C33_InterleavedUpdatesKept ==
    BothDone =>
        \/ getSettings_(userProps)
             = getSettings_(Applied(call.inv[2].c, Applied(call.inv[1].c, call.base)))
        \/ getSettings_(userProps)
             = getSettings_(Applied(call.inv[1].c, Applied(call.inv[2].c, call.base)))

\* What the getters make of a store.
Observable(props) == <<getApiKey(props), getLastTaskId(props), isConfigured(props)>>

\* The step of RunAlone that ran c.
Ran(c) ==
    /\ call.fn = "settings"
    /\ call'.last # call.last
    /\ call'.last.c = c
    /\ call'.last.before = userProps

\* C34: a settings operation run alone keeps what it is not about:
\* saveLastTaskId and clearLastTaskId leave the stored apiKey as it was,
\* saveApiKey leaves lastTaskId as it was, the three readers leave the store as
\* it was, and clearLastTaskId on an empty slot changes nothing the getters
\* return.
C34_SettingsFrame ==
    [][\A c \in SettingsCalls : Ran(c) =>
         /\ c.op \in {"saveLastTaskId", "clearLastTaskId"}
              => getApiKey(userProps') = getApiKey(userProps)
         /\ c.op = "saveApiKey" => getLastTaskId(userProps') = getLastTaskId(userProps)
         /\ c.op \in Readers => userProps' = userProps
         /\ (c.op = "clearLastTaskId" /\ getLastTaskId(userProps) = Null)
              => Observable(userProps') = Observable(userProps)]_vars

\* saveApiKey has just run on a store that held a task id, and
\* clearLastTaskId could run on an empty slot of a store with a key.
C34_Witness ==
    /\ call.fn = "settings"
    /\ AtRest
    /\ call.last.c.op = "saveApiKey"
    /\ getLastTaskId(call.last.before) # Null
    /\ getLastTaskId(userProps) = getLastTaskId(call.last.before)
    /\ getApiKey(userProps) = call.last.c.arg

\* The submit request of the running operation was not answered with a task:
\* no key is configured, fetch raised, or the status code is 401, 403 or
\* another one >= 400.
SubmitFails ==
    /\ pc = "submit"
    /\ pc' # "submit"
    /\ ~Truthy(getApiKey(userProps)) \/ httpCode' # 200

Runs == {"run", "run2"}

\* The operation ended in a request that gave it no task id.
EndedUnsubmitted == pc = "done" /\ op \in Runs /\ taskId = Undefined

\* C35, as claimed: a submission that fails leaves the store as it was before
\* the operation, so that the id of an earlier timed-out task stays in it.
C35_Original ==
    [][(op = "run2" /\ SubmitFails) =>
         getLastTaskId(userProps') = getLastTaskId(call.storeAtStart)]_vars

\* C35, amended: a submission that fails leaves the store as it was before
\* that request, and no status query and no sheet write follows it; for the
\* only submission of a one-task operation and the first submission of a
\* two-phase operation that is the store as it was before the operation; and
\* an operation stores a task id only in the step that received the submit
\* response, the id of that response.
C35_FailedSubmitKeepsStore ==
    [][/\ (pc = "idle" /\ op' \in Runs) => userProps' = userProps
       /\ SubmitFails =>
            /\ pc' = "done"
            /\ userProps' = userProps
            /\ queries' = queries
            /\ sheets' = sheets
            /\ written' = written
       /\ (op = "run2" /\ SubmitFails /\ call.phase = "input") =>
            userProps' = call.storeAtStart
       /\ EndedUnsubmitted =>
            /\ op = "run" => queries = 0
            /\ written = 0
            /\ userProps' = userProps
            /\ sheets' = sheets
            /\ pc' = "done" => queries' = queries
            /\ written' = 0
       /\ (/\ op' \in Runs
           /\ getLastTaskId(userProps') # getLastTaskId(userProps)
           /\ getLastTaskId(userProps') # Null)
            => /\ pc = "submit"
               /\ httpCode' = 200
               /\ getLastTaskId(userProps') = taskId']_vars

\* A submission was turned away with an HTTP error while the store held the
\* id of an earlier task, which is still there.
C35_Witness ==
    /\ EndedUnsubmitted
    /\ outcome.status = "thrown"
    /\ httpCode \in {401, 403, 500}
    /\ op = "run2" => call.phase = "input"
    /\ getLastTaskId(userProps) \in TaskIds \cup {EarlierTaskId}

\* The iterations of the poll loop when no request takes time and no status
\* is terminal: the loop condition at elapsed, then the sleep.
RECURSIVE Iterations(_, _)
Iterations(elapsed, interval) ==
    IF WithinBudget(elapsed, 0)
    THEN 1 + Iterations(SleepUntil(elapsed, interval), NextInterval(interval))
    ELSE 0

\* C36: with requests that take no time, the budget is checked at the head of
\* an iteration only: a sleep starts at elapsed < MAX_POLL_TIME_MS and lasts
\* at most MAX_POLL_INTERVAL_MS, a status query is issued and the invocation
\* returns at elapsed < MAX_POLL_TIME_MS + MAX_POLL_INTERVAL_MS, and an
\* invocation issues no more status queries than the loop has iterations.
C36_BudgetCheckedAtHead ==
    [][scenario.delays = {0} =>
         /\ (pc = "head" /\ pc' = "query") =>
              /\ Elapsed < MAX_POLL_TIME_MS
              /\ now' - now <= MAX_POLL_INTERVAL_MS
         /\ (pc = "head" /\ pc' = "done" /\ result'.status = "timeout") =>
              Elapsed >= MAX_POLL_TIME_MS
         /\ pc \in {"head", "query", "done"} =>
              /\ Elapsed < MAX_POLL_TIME_MS + MAX_POLL_INTERVAL_MS
              /\ queries <= Iterations(0, INITIAL_POLL_INTERVAL_MS)
              /\ queries < MaxQueries]_vars

\* A status query is about to be issued after the budget has run out: the
\* sleep before it began within the budget.
C36_Witness ==
    /\ scenario.delays = {0}
    /\ pc = "query"
    /\ Elapsed >= MAX_POLL_TIME_MS
    /\ queries = Iterations(0, INITIAL_POLL_INTERVAL_MS) - 1

\* The step that runs checkPreviousTask.
Checks == pc = "idle" /\ op' = "check"

NoPreviousTask == <<"No previous task found. Run an operation first.">>

\* C37: checkPreviousTask without an id on an empty store throws the 'no
\* previous task' error, sends no request and leaves the store empty; with an
\* explicit id it asks for that id whatever the store holds; and on a
\* non-terminal status it returns 'running' for the id it asked for, the store
\* unchanged.
C37_CheckPreviousTaskIds ==
    [][Checks =>
         /\ (argTaskId' = Undefined /\ getLastTaskId(userProps) = Null) =>
              /\ result' = Throw(NoPreviousTask)
              /\ outcome' = Throw(NoPreviousTask)
              /\ queries' = 0
              /\ httpCode' = NotSent
              /\ userProps' = userProps
              /\ getLastTaskId(userProps') = Null
         /\ argTaskId' # Undefined => taskId' = argTaskId'
         /\ (argTaskId' = Undefined /\ getLastTaskId(userProps) # Null) =>
              taskId' = getLastTaskId(userProps)
         /\ (httpCode' = 200 /\ status'.status \in NonTerminalStatuses) =>
              /\ result' = Return("running", taskId', Undefined)
              /\ outcome' = result'
              /\ userProps' = userProps]_vars

\* checkPreviousTask was handed the id of a running task while the store
\* held the id of another one, and returned 'running'.
C37_Witness ==
    /\ pc = "done"
    /\ op = "check"
    /\ argTaskId \in TaskIds
    /\ getLastTaskId(userProps) \in TaskIds \ {argTaskId}
    /\ taskId = argTaskId
    /\ result.status = "running"

\* The step that runs retrieveTaskResults: on its own, or for the user who
\* answered YES after checkPreviousTask.
Retrieves ==
    \/ pc = "idle" /\ op' = "retrieve"
    \/ pc = "done" /\ op = "check" /\ outcome = NoResult /\ outcome' # NoResult

WroteAndCleared == sheets' # sheets /\ clearCalls' = clearCalls + 1

\* C38: retrieveTaskResults inserts a sheet and clears the store only when
\* the status it was just given is 'completed' and the normalized result is
\* not empty, and then it does both; in every other case (another status, an
\* empty result, a request that failed) it throws, inserts no sheet and
\* leaves the store as it was.
C38_RetrieveWritesOnlyCompleted ==
    [][Retrieves =>
         /\ (sheets' # sheets \/ clearCalls' # clearCalls \/ userProps' # userProps) =>
              /\ WroteAndCleared
              /\ httpCode' = 200
              /\ status'.status = "completed"
              /\ payload' # NoPayload
              /\ Len(extractResultData(payload')) > 0
              /\ written' = written + 1
              /\ getLastTaskId(userProps') = Null
              /\ outcome' = Completed(Len(extractResultData(payload')))
         /\ ~WroteAndCleared =>
              /\ outcome'.status = "thrown"
              /\ sheets' = sheets
              /\ written' = written
              /\ userProps' = userProps
         /\ (status'.status # "completed" \/ payload' = NoPayload
               \/ Len(extractResultData(payload')) = 0) => ~WroteAndCleared]_vars

\* retrieveTaskResults wrote the results of a completed task and cleared the
\* slot that held an id.
C38_Witness ==
    /\ pc = "done"
    /\ op = "retrieve"
    /\ outcome.status = "completed"
    /\ status.status = "completed"
    /\ written = 1
    /\ clearCalls = 1
    /\ getLastTaskId(userProps) = Null

\* The ids of the two tasks of a two-phase operation, in the order the
\* service hands them out.
InputTask == TaskIdSeq[1]

MainTask == TaskIdSeq[2]

\* The two-phase operation has returned or thrown.
Ended == op = "run2" /\ pc = "done" /\ call.phase # "input"

\* C39: in a two-phase operation the main task is submitted only after a
\* status query found the input-artifact task 'completed'; when the polling
\* of the input-artifact task times out or fails the operation throws and no
\* main task is submitted; and when the operation returns 'timeout' the id
\* it returns and the store holds is the main task's.
C39_MainAfterInputCompleted ==
    [][op = "run2" =>
         /\ (remote[MainTask] = "none" /\ remote'[MainTask] # "none") =>
              /\ remote[InputTask] = "completed"
              /\ status.status = "completed"
              /\ status.artifact_id = ArtifactOf(InputTask)
              /\ call.phase = "main"
         /\ (/\ pc = "done"
             /\ call.phase = "input"
             /\ result.status \in {"timeout", "thrown"}
             /\ call'.phase # "input") =>
              /\ pc' = "done"
              /\ outcome'.status = "thrown"
              /\ remote'[MainTask] = "none"
         /\ (Ended /\ remote[MainTask] = "none") =>
              outcome.status = "thrown" /\ remote'[MainTask] = "none"
         /\ (Ended /\ outcome.status = "timeout") =>
              /\ outcome.taskId = MainTask
              /\ getLastTaskId(userProps) = MainTask
              /\ remote[InputTask] = "completed"]_vars

\* The operation returned 'timeout' from the polling of its main task.
C39_Witness ==
    /\ Ended
    /\ outcome.status = "timeout"
    /\ call.phase = "main"
    /\ getLastTaskId(userProps) = MainTask
    /\ remote[InputTask] = "completed"

\* Object.keys of a record of the conversion whose headers are named.
RecordKeys(named) == OwnKeys(named)

\* C40: on a selection of at least two rows that selectionToRecords converts,
\* getSelectionInfo reports as rowCount the number of records, as columnCount
\* the number of keys of a record, and as headers the keys of a record in the
\* order Object.keys gives them.
C40_InfoAgreesWithConversion ==
    (/\ call.fn = "getSelectionInfo"
     /\ call.done
     /\ Len(call.arg.values) >= 2
     /\ ~selectionToRecords(call.arg).threw) =>
        LET records == selectionToRecords(call.arg).records IN
        /\ call.ret.rowCount = Len(records)
        /\ \A n \in 1..Len(records) :
             /\ call.ret.columnCount = Cardinality(DOMAIN records[n])
             /\ call.ret.headers = RecordKeys(headers(call.arg.values))
             /\ {call.ret.headers[k] : k \in 1..Len(call.ret.headers)} = DOMAIN records[n]

====
